---------------------------- MODULE Spec2Model ----------------------------
(***************************************************************************)
(* A model of the qfg5-reenigne resource decoders.                         *)
(*                                                                         *)
(*   SpecRle : decode_rle            (src/src/qfg5resource/decode.rs)      *)
(*   SpecSpk : SpkArchive::new and concurrent SpkArchive::read_item        *)
(*                                   (src/src/qfg5resource/qfg5spk.rs)     *)
(*   SpecMdl : Qfg5Model::new        (src/src/qfg5resource/qfg5mdl.rs)     *)
(* and one specification for each of the other decoders and the viewer,    *)
(* each introduced in its own section below.                               *)
(*                                                                         *)
(* Rust semantics kept by the model:                                       *)
(*   - an out-of-range slice index panics (the call does not return);      *)
(*   - the loops run iteration by iteration, as written;                   *)
(*   - u32 arithmetic is 32 bits wide: an overflowing +, - or * panics in  *)
(*     a build with overflow checks (the debug profile) and wraps in one   *)
(*     without (the release profile); `as u32` truncates silently;         *)
(*   - a read past the end of a file or cursor is an UnexpectedEof error.  *)
(*                                                                         *)
(* TLC's integers are 32-bit signed, so a 32- or 64-bit quantity of the    *)
(* program is a pair <<hi, lo>> standing for hi * 65536 + lo, with lo in   *)
(* 0..65535 and hi any integer ("wide" below).                             *)
(***************************************************************************)
EXTENDS Integers, Sequences, FiniteSets, TLC

VARIABLES
    data,            \* decode_rle: the input slice
    output,          \* decode_rle: the output slice
    output_init,     \* the output slice as the caller passed it
    n,               \* decode_rle: index of the next control byte
    output_index,    \* decode_rle: index of the next output byte
    rle_pc,          \* "loop" | "returned" | "panicked"
    overflow_checks, \* the build: TRUE when integer overflow panics
    f,               \* SpkArchive::new: the File (its bytes and its seek position)
    spk,             \* SpkArchive::new: its locals and its outcome
    items,           \* SpkArchive.items
    rd,              \* per thread: its read_item call
    mdl_data,        \* Qfg5Model::new: the byte buffer it is given
    cursor,          \* Qfg5Model::new: the position of its Cursor
    mdl,             \* Qfg5Model::new: its locals and its outcome
    submeshes,       \* Qfg5Model.submeshes
    subbitmaps,      \* Qfg5Model.subbitmaps
    anm_data,        \* AnmDecoder::new: the byte buffer it is given
    anm,             \* AnmDecoder::new: its cursor, its locals and its outcome
    anims,           \* AnmDecoder::new: the anims pushed so far
    qgm_data,        \* QgmDecoder::new: the byte buffer it is given
    qgm,             \* QgmDecoder::new: its cursor, its locals and its outcome
    messages,        \* QgmDecoder::new: the messages pushed so far
    cipher,          \* demangle_text: its argument and its result
    b36,             \* the base-36 encoders: their arguments and results
    gra_data,        \* GraDecoder::new: the byte buffer it is given
    gra,             \* GraDecoder::new: its cursor, its locals and its outcome
    sprite_collections, \* GraDecoder::new: the collections pushed so far
    pal,             \* decode_rgb555_palette: its argument, its loop, its result
    nod,             \* NodDecoder::new: its argument, its loop, its outcome
    img,             \* ImageDecoder::new: its argument and its outcome
    rgd,             \* RgdDecoder::new: its argument, its locals, its outcome
    qgf,             \* QgfDecoder::new: its argument, its locals, its outcome
    viewer           \* mdl_anm_viewer: the State of the viewer

rleVars == <<data, output, output_init, n, output_index, rle_pc>>

spkVars == <<f, spk, items, rd>>

mdlVars == <<mdl_data, cursor, mdl, submeshes, subbitmaps>>

anmVars == <<anm_data, anm, anims>>

qgmVars == <<qgm_data, qgm, messages>>

graVars == <<gra_data, gra, sprite_collections>>

\* The components of the decoders that follow the mesh decoder.
lastVars == <<nod, img, rgd, qgf, viewer>>

laterVars == <<anmVars, qgmVars, cipher, b36, graVars, pal, lastVars>>

vars == <<rleVars, overflow_checks, spkVars, mdlVars, laterVars>>

(***************************************************************************)
(* Bounds of the explored inputs.                                          *)
(***************************************************************************)
MaxData == 4
MaxOut == 3
MaxFiles == 2
NumThreads == 2
MaxSubmeshes == 2
MaxSubBitmaps == 2
MaxAnims == 2
MaxBlocks == 2
MaxText == 4

\* The byte values the exhaustive inputs are drawn from: the no-op control
\* byte, short repeat runs, both sides of the 127/128 threshold and short
\* literal runs.
RleBytes == {0, 1, 2, 127, 128, 254, 255}

\* The byte values a caller's output buffer is filled with before the call.
FillBytes == {0, 9}

SeqsUpTo(S, k) == UNION {[1..m -> S] : m \in 0..k}


(***************************************************************************)
(* Wide integers, and the program's 32-bit arithmetic                      *)
(***************************************************************************)

Limb == 65536

\* The wide of a TLC integer.
W(i) == <<i \div Limb, i % Limb>>

WNorm(hi, lo) == <<hi + (lo \div Limb), lo % Limb>>

WAdd(x, y) == WNorm(x[1] + y[1], x[2] + y[2])

WSub(x, y) == WNorm(x[1] - y[1], x[2] - y[2])

\* k * x for a small TLC integer k.
WMul(k, x) == WNorm(k * x[1], k * x[2])

WLt(x, y) == x[1] < y[1] \/ (x[1] = y[1] /\ x[2] < y[2])

WLe(x, y) == x = y \/ WLt(x, y)

\* The TLC integer of a wide known to be small.
WInt(x) == x[1] * Limb + x[2]

\* A value of type u32.
InU32(x) == x[1] >= 0 /\ x[1] < Limb

\* `x as u32`: the low 32 bits.
AsU32(x) == <<x[1] % Limb, x[2]>>

\* The result of a u32 operation whose exact value is x: x when it fits,
\* else a panic under overflow checks and the wrapped value without.
U32Result(x, checks) ==
    IF InU32(x) THEN [v |-> x, panic |-> FALSE]
    ELSE IF checks THEN [v |-> AsU32(x), panic |-> TRUE]
    ELSE [v |-> AsU32(x), panic |-> FALSE]

(***************************************************************************)
(* Byte buffers: files and cursors                                         *)
(*                                                                         *)
(* A buffer is [len |-> wide, segs |-> sequence of [at |-> wide,           *)
(* bytes |-> sequence of bytes]]: `len` bytes, those of the segments where *)
(* they lie and 0 elsewhere (a sparse file), so that a buffer of 4 GiB and *)
(* more can be written down.                                               *)
(***************************************************************************)

RECURSIVE SegByte(_, _, _)
SegByte(segs, i, off) ==
    IF i > Len(segs) THEN 0
    ELSE LET sg == segs[i]
             rel == WSub(off, sg.at)
         IN  IF rel[1] = 0 /\ rel[2] < Len(sg.bytes)
             THEN sg.bytes[rel[2] + 1]
             ELSE SegByte(segs, i + 1, off)

\* The byte at offset off < bf.len.
ByteAt(bf, off) == SegByte(bf.segs, 1, off)

\* Whether k bytes can be read at pos.
CanRead(bf, pos, k) == WLe(WAdd(pos, k), bf.len)

\* read_u16::<LittleEndian> at pos, as a TLC integer.
ReadU16(bf, pos) ==
    ByteAt(bf, pos) + 256 * ByteAt(bf, WAdd(pos, W(1)))

\* read_u32::<LittleEndian> at pos, as a wide.
ReadU32(bf, pos) ==
    <<ReadU16(bf, WAdd(pos, W(2))), ReadU16(bf, pos)>>

\* read_exact of k bytes at pos (k a TLC integer).
ReadBytes(bf, pos, k) == [i \in 1..k |-> ByteAt(bf, WAdd(pos, W(i - 1)))]

\* The little-endian bytes of a 16-bit integer and of a u32.
LE16(v) == <<v % 256, v \div 256>>

LE32(x) == LE16(x[2]) \o LE16(x[1])

Zeros(k) == [i \in 1..k |-> 0]

Filled(k, b) == [i \in 1..k |-> b]

\* String::from_utf8: whether the bytes from position i (1-based) on are
\* well-formed UTF-8.
Cont(bs, i) == i <= Len(bs) /\ bs[i] >= 128 /\ bs[i] <= 191

RECURSIVE IsUtf8(_, _)
IsUtf8(bs, i) ==
    IF i > Len(bs) THEN TRUE
    ELSE LET b0 == bs[i]
             nxt == IF i + 1 <= Len(bs) THEN bs[i + 1] ELSE 0
         IN  IF b0 < 128 THEN IsUtf8(bs, i + 1)
             ELSE IF b0 >= 194 /\ b0 <= 223
             THEN Cont(bs, i + 1) /\ IsUtf8(bs, i + 2)
             ELSE IF b0 >= 224 /\ b0 <= 239
             THEN /\ Cont(bs, i + 1) /\ Cont(bs, i + 2)
                  /\ (b0 = 224 => nxt >= 160)
                  /\ (b0 = 237 => nxt <= 159)
                  /\ IsUtf8(bs, i + 3)
             ELSE IF b0 >= 240 /\ b0 <= 244
             THEN /\ Cont(bs, i + 1) /\ Cont(bs, i + 2) /\ Cont(bs, i + 3)
                  /\ (b0 = 240 => nxt >= 144)
                  /\ (b0 = 244 => nxt <= 143)
                  /\ IsUtf8(bs, i + 4)
             ELSE FALSE

(***************************************************************************)
(* Each specification runs one component; the others are at rest.          *)
(***************************************************************************)

Threads == 1..NumThreads

RleIdle ==
    /\ data = <<>>
    /\ output = <<>>
    /\ output_init = <<>>
    /\ n = 0
    /\ output_index = 0
    /\ rle_pc = "idle"

NoFile == [len |-> W(0), segs |-> <<>>, pos |-> W(0)]

NoCall == [st |-> "idle", item |-> 0, buf |-> <<>>, got |-> 0]

SpkLocals ==
    [pc |-> "idle", err |-> "", file_len |-> W(0), num_files |-> 0,
     a |-> W(0), b |-> W(0), local_file_start |-> W(0),
     central_directory_offset |-> W(0), n |-> 0,
     item_location |-> W(0), fname_len |-> W(0)]

SpkIdle ==
    /\ f = NoFile
    /\ spk = SpkLocals
    /\ items = <<>>
    /\ rd = [t \in Threads |-> NoCall]

NoBuffer == [len |-> W(0), segs |-> <<>>]

NoRecord ==
    [width |-> W(0), height |-> W(0), width_pow_2 |-> W(0),
     height_pow_2 |-> W(0), width_minus_1 |-> W(0), height_minus_1 |-> W(0)]

MdlLocals ==
    [pc |-> "idle", err |-> "", num_submeshes |-> 0,
     bitmap_texture_offset |-> W(0), submesh_offset |-> <<>>, n |-> 0,
     num_subbitmaps |-> W(0), records |-> <<>>]

MdlIdle ==
    /\ mdl_data = NoBuffer
    /\ cursor = W(0)
    /\ mdl = MdlLocals
    /\ submeshes = <<>>
    /\ subbitmaps = <<>>

NotCalled == [pc |-> "idle"]

AnmIdle == anm_data = NoBuffer /\ anm = NotCalled /\ anims = <<>>

QgmIdle == qgm_data = NoBuffer /\ qgm = NotCalled /\ messages = <<>>

CipherIdle == cipher = NotCalled

B36Idle == b36 = NotCalled

GraIdle == gra_data = NoBuffer /\ gra = NotCalled /\ sprite_collections = <<>>

PalIdle == pal = NotCalled

NodIdle == nod = NotCalled

ImgIdle == img = NotCalled

RgdIdle == rgd = NotCalled

QgfIdle == qgf = NotCalled

ViewerIdle == viewer = NotCalled

LastIdle == NodIdle /\ ImgIdle /\ RgdIdle /\ QgfIdle /\ ViewerIdle

LaterIdle ==
    AnmIdle /\ QgmIdle /\ CipherIdle /\ B36Idle /\ GraIdle /\ PalIdle /\ LastIdle

\* Everything but the component a specification runs.
anmRest ==
    <<overflow_checks, rleVars, spkVars, mdlVars, qgmVars, cipher, b36, graVars, pal, lastVars>>

qgmRest ==
    <<overflow_checks, rleVars, spkVars, mdlVars, anmVars, cipher, b36, graVars, pal, lastVars>>

cipherRest ==
    <<overflow_checks, rleVars, spkVars, mdlVars, anmVars, qgmVars, b36, graVars, pal, lastVars>>

b36Rest ==
    <<overflow_checks, rleVars, spkVars, mdlVars, anmVars, qgmVars, cipher, graVars, pal, lastVars>>

graRest ==
    <<overflow_checks, rleVars, spkVars, mdlVars, anmVars, qgmVars, cipher, b36, pal, lastVars>>

palRest ==
    <<overflow_checks, rleVars, spkVars, mdlVars, anmVars, qgmVars, cipher, b36, graVars, lastVars>>

\* The components before the last five.
firstVars ==
    <<overflow_checks, rleVars, spkVars, mdlVars, anmVars, qgmVars, cipher, b36, graVars, pal>>

nodRest == <<firstVars, img, rgd, qgf, viewer>>

imgRest == <<firstVars, nod, rgd, qgf, viewer>>

rgdRest == <<firstVars, nod, img, qgf, viewer>>

qgfRest == <<firstVars, nod, img, rgd, viewer>>

viewerRest == <<firstVars, nod, img, rgd, qgf>>

\* The components before the last five at rest.
FirstIdle ==
    /\ RleIdle /\ SpkIdle /\ MdlIdle
    /\ AnmIdle /\ QgmIdle /\ CipherIdle /\ B36Idle /\ GraIdle /\ PalIdle

(***************************************************************************)
(* decode_rle                                                              *)
(***************************************************************************)

\* `data[i]` and `output[i]` of the source are 0-based.
At(s, i) == s[i + 1]

InRange(s, i) == i >= 0 /\ i < Len(s)

\* decode.rs:15  `count < 128` selects a repeat run.
IsRepeat(count) == count < 128

\* decode.rs:24  the length of a literal run.
LiteralCount_OffByOne(count) == 255 - count
LiteralCount(count) == 256 - count

\* decode.rs:17-21  the repeat loop, iteration i of 0..count.
\* The result is the output, the output index and whether an index panicked.
RECURSIVE RepeatLoop(_, _, _, _, _)
RepeatLoop(out, oi, value, count, i) ==
    IF i >= count THEN [out |-> out, oi |-> oi, panic |-> FALSE]
    ELSE IF ~InRange(out, oi) THEN [out |-> out, oi |-> oi, panic |-> TRUE]
    ELSE LET out2 == [out EXCEPT ![oi + 1] = value]
             oi2 == oi + 1
         IN  IF oi2 = Len(out2)
             THEN [out |-> out2, oi |-> oi2, panic |-> FALSE]
             ELSE RepeatLoop(out2, oi2, value, count, i + 1)

\* decode.rs:26  the source index of literal byte j of the run at n.
LiteralSource(nn, j) == nn + j + 1

\* decode.rs:25-29  the literal loop, iteration j of 0..count.
RECURSIVE LiteralLoop(_, _, _, _, _, _)
LiteralLoop(d, out, oi, nn, count, j) ==
    IF j >= count THEN [out |-> out, oi |-> oi, panic |-> FALSE]
    ELSE IF ~InRange(d, LiteralSource(nn, j)) \/ ~InRange(out, oi)
         THEN [out |-> out, oi |-> oi, panic |-> TRUE]
    ELSE LET out2 == [out EXCEPT ![oi + 1] = At(d, LiteralSource(nn, j))]
             oi2 == oi + 1
         IN  IF oi2 = Len(out2)
             THEN [out |-> out2, oi |-> oi2, panic |-> FALSE]
             ELSE LiteralLoop(d, out2, oi2, nn, count, j + 1)

\* decode.rs:22  a repeat run consumes the control byte and the value byte.
RepeatAdvance_One(nn) == nn + 1
RepeatAdvance(nn) == nn + 2

\* decode.rs:11-31  one iteration of `while n < data.len()`.
RleIteration(d, out, oi, nn) ==
    LET count == At(d, nn)
    IN  IF count = 0
        THEN [out |-> out, oi |-> oi, n |-> nn + 1, panic |-> FALSE]
        ELSE IF IsRepeat(count)
        THEN IF ~InRange(d, nn + 1)
             THEN [out |-> out, oi |-> oi, n |-> nn, panic |-> TRUE]
             ELSE LET r == RepeatLoop(out, oi, At(d, nn + 1), count, 0)
                  IN  [out |-> r.out, oi |-> r.oi,
                       n |-> IF r.panic THEN nn ELSE RepeatAdvance(nn),
                       panic |-> r.panic]
        ELSE LET lc == LiteralCount(count)
                 r == LiteralLoop(d, out, oi, nn, lc, 0)
             IN  [out |-> r.out, oi |-> r.oi,
                  n |-> IF r.panic THEN nn ELSE nn + lc + 1,
                  panic |-> r.panic]

RleTypeOK ==
    /\ data \in Seq(0..255)
    /\ output \in Seq(0..255)
    /\ Len(output) = Len(output_init)
    /\ n \in Nat
    /\ output_index \in 0..Len(output)
    /\ rle_pc \in {"idle", "loop", "returned", "panicked"}

\* Every input of at most MaxData bytes with every output length up to MaxOut.
RleInputs == SeqsUpTo(RleBytes, MaxData) \X (0..MaxOut)

\* decode.rs:7-9  the call: the caller's slices, both indices 0.
RleInit ==
    /\ \E in \in RleInputs, fill \in FillBytes :
         /\ data = in[1]
         /\ output_init = [i \in 1..in[2] |-> fill]
    /\ output = output_init
    /\ n = 0
    /\ output_index = 0
    /\ rle_pc = "loop"
    /\ overflow_checks \in BOOLEAN
    /\ SpkIdle
    /\ MdlIdle
    /\ LaterIdle

\* decode.rs:10-32  one iteration of the outer loop.
RleStep ==
    /\ rle_pc = "loop"
    /\ n < Len(data)
    /\ LET r == RleIteration(data, output, output_index, n)
       IN  /\ output' = r.out
           /\ output_index' = r.oi
           /\ n' = r.n
           /\ rle_pc' = IF r.panic THEN "panicked" ELSE "loop"
    /\ UNCHANGED <<data, output_init, overflow_checks, spkVars, mdlVars, laterVars>>

\* decode.rs:10,33  the loop condition fails and decode_rle returns.
RleReturn ==
    /\ rle_pc = "loop"
    /\ n >= Len(data)
    /\ rle_pc' = "returned"
    /\ UNCHANGED <<data, output, output_init, n, output_index>>
    /\ UNCHANGED <<overflow_checks, spkVars, mdlVars, laterVars>>

RleNext == RleStep \/ RleReturn

SpecRle == RleInit /\ [][RleNext]_vars

(***************************************************************************)
(* SpkArchive::new                                                         *)
(***************************************************************************)

\* qfg5spk.rs:31  0x4b50
PkMagic == 19280

\* qfg5spk.rs:33  0x0705
PkId == 1797

\* qfg5spk.rs:29  the end-of-directory record is the last 22 (0x16) bytes.
TrailerSize == 22

\* qfg5spk.rs:57  0x42, the fixed part of a local file header.
LocalHeaderSize == 66

SpkFail(loc, kind, pos) == [spk |-> [loc EXCEPT !.pc = "err", !.err = kind], pos |-> pos]

SpkPanic(loc, pos) == [spk |-> [loc EXCEPT !.pc = "panic"], pos |-> pos]

\* qfg5spk.rs:26  `f.seek(SeekFrom::End(0))? as u32`
FileLen(len) == AsU32(len)

\* qfg5spk.rs:42  (file_len - a) - b - 0x16, in u32.
LocalFileStart(file_len, a, b, checks) ==
    LET s1 == U32Result(WSub(file_len, a), checks)
        s2 == U32Result(WSub(s1.v, b), checks)
        s3 == U32Result(WSub(s2.v, W(TrailerSize)), checks)
    IN  [v |-> s3.v, panic |-> s1.panic \/ s2.panic \/ s3.panic]

\* qfg5spk.rs:44  (file_len - a) - 0x16, in u32.
CentralDirectoryOffset(file_len, a, checks) ==
    LET s1 == U32Result(WSub(file_len, a), checks)
        s2 == U32Result(WSub(s1.v, W(TrailerSize)), checks)
    IN  [v |-> s2.v, panic |-> s1.panic \/ s2.panic]

\* qfg5spk.rs:57  local_file_start + item_location + 0x42 + fname_len, in u32.
ItemOffset(local_file_start, item_location, fname_len, checks) ==
    LET s1 == U32Result(WAdd(local_file_start, item_location), checks)
        s2 == U32Result(WAdd(s1.v, W(LocalHeaderSize)), checks)
        s3 == U32Result(WAdd(s2.v, fname_len), checks)
    IN  [v |-> s3.v, panic |-> s1.panic \/ s2.panic \/ s3.panic]

\* qfg5spk.rs:26-45  the end-of-directory record.
SpkTrailer(file, loc, checks) ==
    LET file_len == FileLen(file.len)
    IN  IF WLt(file.len, W(TrailerSize))
        THEN SpkFail(loc, "io", file.len)           \* seek before the start
        ELSE
        LET t == WSub(file.len, W(TrailerSize))
            pk == ReadU16(file, t)
            id == ReadU16(file, WAdd(t, W(2)))
            num_files == ReadU16(file, WAdd(t, W(8)))
            num_files_dup == ReadU16(file, WAdd(t, W(10)))
            a == ReadU32(file, WAdd(t, W(12)))
            b == ReadU32(file, WAdd(t, W(16)))
            lfs == LocalFileStart(file_len, a, b, checks)
            cdo == CentralDirectoryOffset(file_len, a, checks)
            l1 == [loc EXCEPT !.file_len = file_len]
        IN  IF pk # PkMagic THEN SpkFail(l1, "pk", WAdd(t, W(2)))
            ELSE IF id # PkId THEN SpkFail(l1, "id", WAdd(t, W(4)))
            ELSE IF num_files # num_files_dup
            THEN SpkFail([l1 EXCEPT !.num_files = num_files], "count", WAdd(t, W(12)))
            ELSE
            LET l2 == [l1 EXCEPT !.num_files = num_files, !.a = a, !.b = b]
            IN  IF lfs.panic \/ cdo.panic THEN SpkPanic(l2, WAdd(t, W(20)))
                ELSE [spk |-> [l2 EXCEPT !.pc = "records",
                                         !.local_file_start = lfs.v,
                                         !.central_directory_offset = cdo.v],
                      pos |-> cdo.v]

\* qfg5spk.rs:61  the entry's name, or "<corrupt-n>".
Filename(fname, nn) ==
    IF IsUtf8(fname, 1) THEN fname ELSE <<"<corrupt>", nn>>

\* qfg5spk.rs:48-63  one directory record, read at the seek position.
\* The result adds `item`, the entry pushed (when spk.pc stays "records").
SpkRecord(file, loc, checks) ==
    LET p0 == file.pos
        pc1 == WAdd(p0, W(20))
        noitem == [filename |-> <<>>, offset |-> W(0), length |-> W(0)]
        fail(kind, pos) == SpkFail(loc, kind, pos) @@ [item |-> noitem]
    IN  IF ~CanRead(file, pc1, W(8)) THEN fail("io", pc1)
        ELSE
        LET compr_size == ReadU32(file, pc1)
            decompr_size == ReadU32(file, WAdd(pc1, W(4)))
        IN  IF compr_size # decompr_size THEN fail("compressed", WAdd(pc1, W(8)))
            ELSE IF ~CanRead(file, WAdd(p0, W(28)), W(4)) THEN fail("io", WAdd(p0, W(28)))
            ELSE IF ~CanRead(file, WAdd(p0, W(42)), W(4)) THEN fail("io", WAdd(p0, W(42)))
            ELSE
            LET fname_len == ReadU32(file, WAdd(p0, W(28)))
                item_location == ReadU32(file, WAdd(p0, W(42)))
                offset == ItemOffset(loc.local_file_start, item_location, fname_len, checks)
                l1 == [loc EXCEPT !.item_location = item_location, !.fname_len = fname_len]
                pn == WAdd(p0, W(46))
            IN  IF offset.panic THEN SpkPanic(l1, pn) @@ [item |-> noitem]
                ELSE IF ~CanRead(file, pn, fname_len)
                THEN SpkFail(l1, "io", pn) @@ [item |-> noitem]
                ELSE [spk |-> [l1 EXCEPT !.n = loc.n + 1],
                      pos |-> WAdd(pn, fname_len),
                      item |-> [filename |-> Filename(ReadBytes(file, pn, WInt(fname_len)), loc.n),
                                offset |-> offset.v,
                                length |-> decompr_size]]

\* qfg5spk.rs:72-73  `read_exact_at(&mut buf, item.offset)`: each read is
\* positional (pread): it reads at the offset it is given and leaves the
\* file's seek position alone.
Pread_SharedCursor(seekpos, offset, k) == [at |-> seekpos, cursor |-> WAdd(seekpos, k)]
Pread(seekpos, offset, k) == [at |-> offset, cursor |-> seekpos]

(***************************************************************************)
(* Archive files                                                           *)
(***************************************************************************)

\* The entries archives are built from: a name and the entry's bytes.  The
\* second name is two-byte UTF-8, the third is not UTF-8.
EntryPool ==
    << [name |-> <<65>>, payload |-> <<161, 162>>],
       [name |-> <<195, 169>>, payload |-> <<177>>],
       [name |-> <<255>>, payload |-> <<>>] >>

\* A local file: the header (0x42 bytes and the name) and the entry's bytes.
MkLocal(e) == Filled(LocalHeaderSize + Len(e.name), 238) \o e.payload

\* A directory record: 46 bytes and the name.
MkRecord(compr, decompr, name, loc) ==
    Zeros(20) \o LE32(compr) \o LE32(decompr) \o LE32(W(Len(name)))
        \o Zeros(10) \o LE32(loc) \o name

MkTrailer(pk, id, nf, nfdup, a, b) ==
    LE16(pk) \o LE16(id) \o Zeros(4) \o LE16(nf) \o LE16(nfdup)
        \o LE32(a) \o LE32(b) \o Zeros(2)

RECURSIVE Concat(_)
Concat(ss) == IF ss = <<>> THEN <<>> ELSE Head(ss) \o Concat(Tail(ss))

\* The archive of the entries es (indices into EntryPool) after `pad` bytes
\* of other content, damaged as `tamper` (a set of field names) says.
MkArchive(es, pad, tamper) ==
    LET ents == [i \in 1..Len(es) |-> EntryPool[es[i]]]
        locals == [i \in 1..Len(es) |-> MkLocal(ents[i])]
        locAt(i) == Len(Concat(SubSeq(locals, 1, i - 1)))
        recs == [i \in 1..Len(es) |->
                    MkRecord(W(Len(ents[i].payload)
                                 + (IF "compr" \in tamper /\ i = Len(es) THEN 1 ELSE 0)),
                             W(Len(ents[i].payload)),
                             ents[i].name,
                             IF "loc" \in tamper /\ i = 1
                             THEN <<65535, 65535>> ELSE W(locAt(i)))]
        area == Concat(locals)
        dir == Concat(recs)
        trailer == MkTrailer(IF "pk" \in tamper THEN 0 ELSE PkMagic,
                             IF "id" \in tamper THEN 0 ELSE PkId,
                             Len(es),
                             IF "count" \in tamper THEN Len(es) + 1 ELSE Len(es),
                             IF "a" \in tamper THEN <<65535, 65535>> ELSE W(Len(dir)),
                             IF "b" \in tamper THEN <<65535, 65535>> ELSE W(Len(area)))
        body == area \o dir \o trailer
    IN  [len |-> WAdd(pad, W(Len(body))),
         segs |-> <<[at |-> pad, bytes |-> body]>>,
         pos |-> W(0)]

\* The sizes of the content before the archive: none, a few bytes, 4 GiB.
Pads == {W(0), W(7), <<65536, 0>>}

\* What is damaged: any of the four checked fields, and at most one of the
\* fields the offsets are computed from.
Tampers ==
    {t \cup u : t \in SUBSET {"pk", "id", "count", "compr"},
                u \in {{}, {"a"}, {"b"}, {"loc"}}}

\* Files too short to hold the end-of-directory record.
ShortFiles ==
    {[len |-> W(k), segs |-> <<[at |-> W(0), bytes |-> Filled(k, 80)]>>, pos |-> W(0)]
        : k \in {0, 21}}

SpkFiles ==
    {MkArchive(es, pad, t) : es \in SeqsUpTo(1..Len(EntryPool), MaxFiles),
                             pad \in Pads, t \in Tampers}
        \cup ShortFiles

(***************************************************************************)
(* SpkArchive: the actions                                                 *)
(***************************************************************************)

\* qfg5spk.rs:25  the call, with the file as opened by the caller.
SpkInit ==
    /\ f \in SpkFiles
    /\ spk = [SpkLocals EXCEPT !.pc = "start"]
    /\ items = <<>>
    /\ rd = [t \in Threads |-> NoCall]
    /\ overflow_checks \in BOOLEAN
    /\ RleIdle
    /\ MdlIdle
    /\ LaterIdle

\* qfg5spk.rs:26-47
SpkNewTrailer ==
    /\ spk.pc = "start"
    /\ LET r == SpkTrailer(f, spk, overflow_checks)
       IN  /\ spk' = r.spk
           /\ f' = [f EXCEPT !.pos = r.pos]
    /\ UNCHANGED <<items, rd, overflow_checks, rleVars, mdlVars, laterVars>>

\* qfg5spk.rs:48-63  one iteration of `for n in 0..num_files`.
SpkNewRecord ==
    /\ spk.pc = "records"
    /\ spk.n < spk.num_files
    /\ LET r == SpkRecord(f, spk, overflow_checks)
       IN  /\ spk' = r.spk
           /\ f' = [f EXCEPT !.pos = r.pos]
           /\ items' = IF r.spk.pc = "records" THEN Append(items, r.item) ELSE items
    /\ UNCHANGED <<rd, overflow_checks, rleVars, mdlVars, laterVars>>

\* qfg5spk.rs:64  Ok(Self{ f, items })
SpkNewReturn ==
    /\ spk.pc = "records"
    /\ spk.n = spk.num_files
    /\ spk' = [spk EXCEPT !.pc = "ok"]
    /\ UNCHANGED <<f, items, rd, overflow_checks, rleVars, mdlVars, laterVars>>

\* qfg5spk.rs:71-72  a thread calls read_item on an entry of the archive.
ReadItemCall(t, i) ==
    /\ spk.pc = "ok"
    /\ rd[t].st # "reading"
    /\ rd' = [rd EXCEPT ![t] = [st |-> "reading", item |-> i,
                                buf |-> Zeros(WInt(items[i].length)), got |-> 0]]
    /\ UNCHANGED <<f, spk, items, overflow_checks, rleVars, mdlVars, laterVars>>

\* qfg5spk.rs:73  one read of read_exact_at's loop: at least one byte and at
\* most what is left of the buffer, or UnexpectedEof at the end of the file.
ReadItemPread(t) ==
    /\ rd[t].st = "reading"
    /\ rd[t].got < Len(rd[t].buf)
    /\ LET c == rd[t]
           off == WAdd(items[c.item].offset, W(c.got))
           at == Pread(f.pos, off, W(0)).at
       IN  IF ~CanRead(f, at, W(1))
           THEN /\ rd' = [rd EXCEPT ![t].st = "err"]
                /\ f' = f
           ELSE \E k \in 1..(Len(c.buf) - c.got) :
                  /\ CanRead(f, at, W(k))
                  /\ rd' = [rd EXCEPT ![t].buf =
                                [i \in 1..Len(c.buf) |->
                                    IF i > c.got /\ i <= c.got + k
                                    THEN ByteAt(f, WAdd(at, W(i - c.got - 1)))
                                    ELSE c.buf[i]],
                                      ![t].got = c.got + k]
                  /\ f' = [f EXCEPT !.pos = Pread(f.pos, off, W(k)).cursor]
    /\ UNCHANGED <<spk, items, overflow_checks, rleVars, mdlVars, laterVars>>

\* qfg5spk.rs:74  Ok(buf)
ReadItemReturn(t) ==
    /\ rd[t].st = "reading"
    /\ rd[t].got = Len(rd[t].buf)
    /\ rd' = [rd EXCEPT ![t].st = "ok"]
    /\ UNCHANGED <<f, spk, items, overflow_checks, rleVars, mdlVars, laterVars>>

SpkNext ==
    \/ SpkNewTrailer
    \/ SpkNewRecord
    \/ SpkNewReturn
    \/ \E t \in Threads : \E i \in 1..Len(items) : ReadItemCall(t, i)
    \/ \E t \in Threads : ReadItemPread(t)
    \/ \E t \in Threads : ReadItemReturn(t)

SpecSpk == SpkInit /\ [][SpkNext]_vars

SpkTypeOK ==
    /\ spk.pc \in {"start", "records", "ok", "err", "panic"}
    /\ spk.err \in {"", "io", "pk", "id", "count", "compressed"}
    /\ InU32(spk.local_file_start) /\ InU32(spk.central_directory_offset)
    /\ Len(items) = spk.n
    /\ \A i \in 1..Len(items) : InU32(items[i].offset) /\ InU32(items[i].length)
    /\ \A t \in Threads : rd[t].st \in {"idle", "reading", "ok", "err"}

(***************************************************************************)
(* Qfg5Model::new: u32 products and shifts, and f32 fields                 *)
(***************************************************************************)

\* a * b as a wide, for 0 <= a <= 65536 and 0 <= b < 65536.
Mul16(a, b) == WAdd(WMul(a \div 256, W(256 * b)), W((a % 256) * b))

\* x * y in u32 for any two u32: the product fits when one high limb is 0
\* and the middle terms carry nothing past bit 31.
U32Mul(x, y, checks) ==
    LET p0 == Mul16(x[2], y[2])
        cross == WAdd(Mul16(x[1], y[2]), Mul16(y[1], x[2]))
        mid == cross[2] + p0[1]
        fits == (x[1] = 0 \/ y[1] = 0) /\ cross[1] = 0 /\ mid < Limb
    IN  [v |-> <<mid % Limb, p0[2]>>, panic |-> checks /\ ~fits, fits |-> fits]

RECURSIVE Pow2(_)
Pow2(k) == IF k = 0 THEN 1 ELSE 2 * Pow2(k - 1)

\* 2^k as a wide, 0 <= k <= 32.
Pow2W(k) == IF k < 16 THEN <<0, Pow2(k)>> ELSE <<Pow2(k - 16), 0>>

\* `1 << s` in u32: a shift by 32 or more panics under overflow checks and
\* shifts by s & 31 without.
Shl1(s, checks) ==
    IF s[1] = 0 /\ s[2] < 32 THEN [v |-> Pow2W(s[2]), panic |-> FALSE]
    ELSE [v |-> Pow2W(s[2] % 32), panic |-> checks]

\* The fields of an IEEE-754 single, from the u32 of its four bytes.
F32Sign(bits) == bits[1] \div 32768

F32Exp(bits) == (bits[1] % 32768) \div 128

F32Mant(bits) == (bits[1] % 128) * Limb + bits[2]

U32Max == <<65535, 65535>>

\* The significand of a normal single, an integer below 2^24, times
\* 2^(F32Exp - F32Bias).
F32Bias == 150

F32Full(bits) == 8388608 + F32Mant(bits)

\* `x as u32` for an f32: NaN and negatives give 0, values of 2^32 and more
\* give u32::MAX, anything else is truncated toward zero.
F32AsU32(bits) ==
    LET e == F32Exp(bits)
    IN  IF e = 255 /\ F32Mant(bits) # 0 THEN W(0)
        ELSE IF F32Sign(bits) = 1 THEN W(0)
        ELSE IF e >= F32Bias + 9 THEN U32Max
        ELSE IF e >= F32Bias THEN WMul(Pow2(e - F32Bias), W(F32Full(bits)))
        ELSE IF e > F32Bias - 24 THEN W(F32Full(bits) \div Pow2(F32Bias - e))
        ELSE W(0)

\* qfg5mdl.rs:73  the bytes skipped before the model's name.
HeaderSkip == 12
\* qfg5mdl.rs:75  the length of a name.
NameSize == 16
\* qfg5mdl.rs:81  the bytes skipped before the palette.
PaletteSkip == 15
\* qfg5mdl.rs:82
PaletteSize == 1019
\* qfg5mdl.rs:98  the unknown floats of a submesh header.
NumUnknownFloats == 20
\* qfg5mdl.rs:108  0x7c, the vertex list address of every submesh.
VlistAddr == 124
\* qfg5mdl.rs:110,117-119  the bytes of a vertex.
VertexSize == 12
\* qfg5mdl.rs:112,123-124  the bytes of a texture coordinate.
TexCoordSize == 8
\* qfg5mdl.rs:114,128-137  the bytes of a face.
FaceSize == 40
\* qfg5mdl.rs:141-144  the bytes of a lighting vertex.
LightingVertexSize == 16
\* qfg5mdl.rs:160-165  the bytes of the six fields of an atlas record.
AtlasRecordSize == 24

MdlFail(loc, kind, pos) ==
    [mdl |-> [loc EXCEPT !.pc = "err", !.err = kind], cursor |-> pos]

MdlPanic(loc, pos) == [mdl |-> [loc EXCEPT !.pc = "panic"], cursor |-> pos]

\* The offset `k` bytes after pos.
Off(pos, k) == WAdd(pos, W(k))

\* qfg5mdl.rs:72-88  the model's name, the submesh count, the palette, the
\* texture atlas offset and the table of submesh offsets.
MdlHeader(bf, loc) ==
    LET namePos == W(HeaderSkip)
        countPos == Off(namePos, NameSize)
        palettePos == Off(countPos, 2 + PaletteSkip)
        atlasPos == Off(palettePos, PaletteSize)
        tablePos == Off(atlasPos, 4)
        count == ReadU16(bf, countPos)
    IN  IF ~CanRead(bf, namePos, W(NameSize)) THEN MdlFail(loc, "io", namePos)
        ELSE IF ~IsUtf8(ReadBytes(bf, namePos, NameSize), 1)
        THEN MdlFail(loc, "utf8", countPos)
        ELSE IF ~CanRead(bf, countPos, W(2)) THEN MdlFail(loc, "io", countPos)
        ELSE IF ~CanRead(bf, palettePos, W(PaletteSize))
        THEN MdlFail(loc, "io", palettePos)
        ELSE IF ~CanRead(bf, atlasPos, W(4)) THEN MdlFail(loc, "io", atlasPos)
        ELSE IF ~CanRead(bf, tablePos, W(4 * count))
        THEN MdlFail(loc, "io", tablePos)
        ELSE [mdl |-> [loc EXCEPT
                         !.pc = "submeshes",
                         !.num_submeshes = count,
                         !.bitmap_texture_offset = ReadU32(bf, atlasPos),
                         !.submesh_offset =
                             [i \in 1..count |->
                                 ReadU32(bf, Off(tablePos, 4 * (i - 1)))],
                         !.n = 0],
              cursor |-> Off(tablePos, 4 * count)]

\* qfg5mdl.rs:110,112,114  `base + (size * count as u32)` in u32.
ChecksumField(base, size, count, checks) ==
    LET prod == U32Result(WMul(size, count), checks)
        sum == U32Result(WAdd(base, prod.v), checks)
    IN  [v |-> sum.v, panic |-> prod.panic \/ sum.panic]

\* qfg5mdl.rs:115-145  the bytes of the vertices, texture coordinates, faces
\* and lighting vertices of a submesh, read record by record in that order.
SubmeshDataSize(num_vertices, num_uv_coords, num_faces) ==
    WAdd(WAdd(WMul(VertexSize, num_vertices), WMul(TexCoordSize, num_uv_coords)),
         WAdd(WMul(FaceSize, num_faces), WMul(LightingVertexSize, num_vertices)))

\* qfg5mdl.rs:92-146  one iteration of `for n in 0..num_submeshes`.  The
\* SubMesh it pushes is kept as its name and the lengths of its four vectors.
MdlSubmesh(bf, loc, checks) ==
    LET start == loc.submesh_offset[loc.n + 1]
        countsPos == Off(start, NameSize + 4 * NumUnknownFloats)
        vlistPos == Off(countsPos, 12)
        r1Pos == Off(vlistPos, 4)
        r2Pos == Off(r1Pos, 4)
        r3Pos == Off(r2Pos, 4)
        dataPos == Off(r3Pos, 4)
        num_vertices == ReadU32(bf, countsPos)
        num_uv_coords == ReadU32(bf, Off(countsPos, 4))
        num_faces == ReadU32(bf, Off(countsPos, 8))
        vlist_addr == ReadU32(bf, vlistPos)
        r1 == ReadU32(bf, r1Pos)
        r2 == ReadU32(bf, r2Pos)
        r3 == ReadU32(bf, r3Pos)
        e1 == ChecksumField(vlist_addr, VertexSize, num_vertices, checks)
        e2 == ChecksumField(r1, TexCoordSize, num_uv_coords, checks)
        e3 == ChecksumField(r2, FaceSize, num_faces, checks)
        size == SubmeshDataSize(num_vertices, num_uv_coords, num_faces)
    IN  IF ~CanRead(bf, start, W(NameSize)) THEN MdlFail(loc, "io", start)
        ELSE IF ~IsUtf8(ReadBytes(bf, start, NameSize), 1)
        THEN MdlFail(loc, "utf8", Off(start, NameSize))
        ELSE IF ~CanRead(bf, start, WAdd(W(NameSize + 4 * NumUnknownFloats), W(16)))
        THEN MdlFail(loc, "io", start)
        ELSE IF vlist_addr # W(VlistAddr) THEN MdlFail(loc, "vlist_addr", r1Pos)
        ELSE IF ~CanRead(bf, r1Pos, W(4)) THEN MdlFail(loc, "io", r1Pos)
        ELSE IF e1.panic THEN MdlPanic(loc, r2Pos)
        ELSE IF r1 # e1.v THEN MdlFail(loc, "r1", r2Pos)
        ELSE IF ~CanRead(bf, r2Pos, W(4)) THEN MdlFail(loc, "io", r2Pos)
        ELSE IF e2.panic THEN MdlPanic(loc, r3Pos)
        ELSE IF r2 # e2.v THEN MdlFail(loc, "r2", r3Pos)
        ELSE IF ~CanRead(bf, r3Pos, W(4)) THEN MdlFail(loc, "io", r3Pos)
        ELSE IF e3.panic THEN MdlPanic(loc, dataPos)
        ELSE IF r3 # e3.v THEN MdlFail(loc, "r3", dataPos)
        ELSE IF ~CanRead(bf, dataPos, size) THEN MdlFail(loc, "io", dataPos)
        ELSE [mdl |-> [loc EXCEPT !.n = loc.n + 1],
              cursor |-> WAdd(dataPos, size),
              submesh |-> [name |-> ReadBytes(bf, start, NameSize),
                           vertices |-> num_vertices,
                           texcoords |-> num_uv_coords,
                           faces |-> num_faces,
                           lighting_vertices |-> num_vertices]]

\* x / 2 for a wide, in the place of x / 4.
WDiv4_By2(x) == <<x[1] \div 2, ((x[1] % 2) * Limb + x[2]) \div 2>>

\* x / 4 for a wide.
WDiv4(x) == <<x[1] \div 4, ((x[1] % 4) * Limb + x[2]) \div 4>>

\* qfg5mdl.rs:149-158  the atlas count, and the skip when there are several.
MdlAtlas(bf, loc) ==
    LET start == loc.bitmap_texture_offset
        field == ReadU32(bf, start)
        num_subbitmaps == WDiv4(field)
        skip == IF WLt(W(1), num_subbitmaps)
                THEN WMul(4, WSub(num_subbitmaps, W(1)))
                ELSE W(0)
    IN  IF ~CanRead(bf, start, W(4)) THEN MdlFail(loc, "io", start)
        ELSE IF field[2] % 4 # 0 THEN MdlFail(loc, "num_subbitmaps", Off(start, 4))
        ELSE [mdl |-> [loc EXCEPT !.pc = "subbitmaps",
                                  !.num_subbitmaps = num_subbitmaps,
                                  !.n = 0],
              cursor |-> WAdd(Off(start, 4), skip)]

\* qfg5mdl.rs:160-165  the six fields of the atlas record at pos.
AtlasRecord(bf, pos) ==
    [width |-> ReadU32(bf, pos),
     height |-> ReadU32(bf, Off(pos, 4)),
     width_pow_2 |-> ReadU32(bf, Off(pos, 8)),
     height_pow_2 |-> ReadU32(bf, Off(pos, 12)),
     width_minus_1 |-> ReadU32(bf, Off(pos, 16)),
     height_minus_1 |-> ReadU32(bf, Off(pos, 20))]

\* qfg5mdl.rs:160-175  one iteration of `for n in 0..num_subbitmaps`; pos is
\* the cursor.  The SubBitmap it pushes is kept as its width, its height and
\* the length of its bitmap.
MdlSubBitmap(bf, loc, pos, checks) ==
    LET rec == AtlasRecord(bf, pos)
        seen == [loc EXCEPT !.records = Append(loc.records, rec)]
        bitmapPos == Off(pos, AtlasRecordSize)
        w1 == U32Result(WAdd(rec.width_minus_1, W(1)), checks)
        h1 == U32Result(WAdd(rec.height_minus_1, W(1)), checks)
        wp == Shl1(rec.width_pow_2, checks)
        hp == Shl1(rec.height_pow_2, checks)
        width == w1.v
        height == h1.v
        area == U32Mul(width, height, checks)
    IN  IF ~CanRead(bf, pos, W(AtlasRecordSize)) THEN MdlFail(loc, "io", pos)
        ELSE IF w1.panic THEN MdlPanic(seen, bitmapPos)
        ELSE IF w1.v # F32AsU32(rec.width) THEN MdlFail(seen, "width", bitmapPos)
        ELSE IF h1.panic THEN MdlPanic(seen, bitmapPos)
        ELSE IF h1.v # F32AsU32(rec.height) THEN MdlFail(seen, "height", bitmapPos)
        ELSE IF wp.panic THEN MdlPanic(seen, bitmapPos)
        ELSE IF wp.v # F32AsU32(rec.width)
        THEN MdlFail(seen, "width_pow_2", bitmapPos)
        ELSE IF hp.panic THEN MdlPanic(seen, bitmapPos)
        ELSE IF hp.v # F32AsU32(rec.height)
        THEN MdlFail(seen, "height_pow_2", bitmapPos)
        ELSE IF area.panic THEN MdlPanic(seen, bitmapPos)
        ELSE IF ~CanRead(bf, bitmapPos, area.v) THEN MdlFail(seen, "io", bitmapPos)
        ELSE [mdl |-> [seen EXCEPT !.n = loc.n + 1],
              cursor |-> WAdd(bitmapPos, area.v),
              subbitmap |-> [width |-> width, height |-> height,
                             bitmap |-> area.v]]

(***************************************************************************)
(* Qfg5Model::new: the buffers it is given                                 *)
(*                                                                         *)
(* A buffer is written the way the decoder reads it: the header, the table *)
(* of submesh offsets, the submeshes one after the other and the texture   *)
(* atlas table, before or after the submeshes.  The vertex, face and pixel *)
(* payloads are zero bytes.                                                *)
(***************************************************************************)

\* Submeshes by their counts: a small one, an empty one, and two whose
\* byte counts pass 2^32 (12 * 357913942 = 2^32 + 8, 8 * 2^29 = 2^32).
MeshShapes ==
    { [nv |-> W(3), nuv |-> W(3), nf |-> W(1)],
      [nv |-> W(0), nuv |-> W(0), nf |-> W(0)],
      [nv |-> <<5461, 21846>>, nuv |-> W(0), nf |-> W(0)],
      [nv |-> W(1), nuv |-> <<8192, 0>>, nf |-> W(0)] }

\* The offset field of a submesh header that is off by one, if any.
MeshTampers == {"none", "vlist_addr", "r1", "r2", "r3"}

PlainMesh == [shape |-> [nv |-> W(3), nuv |-> W(3), nf |-> W(1)], tamper |-> "none"]

\* Every shape as a writer stores it, and the small one with each tamper.
Meshes ==
    {[shape |-> s, tamper |-> "none"] : s \in MeshShapes}
    \cup {[PlainMesh EXCEPT !.tamper = t] : t \in MeshTampers}

\* The f32 bit patterns of 0.0, 1.0, 2.0, 2.5, 4.0, 65536.0 and a NaN.
F0 == <<0, 0>>
F1 == <<16256, 0>>
F2 == <<16384, 0>>
F2_5 == <<16416, 0>>
F4 == <<16512, 0>>
F65536 == <<18304, 0>>
FNaN == <<32704, 0>>

Rec(w, h, wp, hp, wm1, hm1, pix) ==
    [width |-> w, height |-> h, width_pow_2 |-> wp, height_pow_2 |-> hp,
     width_minus_1 |-> wm1, height_minus_1 |-> hm1, pix |-> pix]

PlainAtlas == Rec(F2, F2, W(1), W(1), W(1), W(1), W(4))

\* Atlas records with the pixel bytes that follow each: two sound records, a
\* fractional width, shift counts of 33, a 65536 x 65536 atlas, one wrong
\* field at a time, a width_minus_1 of u32::MAX and a NaN width.
AtlasShapes ==
    { PlainAtlas,
      Rec(F1, F4, W(0), W(2), W(0), W(3), W(4)),
      Rec(F2_5, F2, W(1), W(1), W(1), W(1), W(4)),
      Rec(F2, F2, W(33), W(1), W(1), W(1), W(4)),
      Rec(F2, F2, W(1), W(33), W(1), W(1), W(4)),
      Rec(F65536, F65536, W(16), W(16), W(65535), W(65535), <<65536, 0>>),
      Rec(F2, F2, W(1), W(1), W(2), W(1), W(6)),
      Rec(F2, F2, W(1), W(1), W(1), W(0), W(2)),
      Rec(F2, F2, W(2), W(1), W(1), W(1), W(4)),
      Rec(F2, F2, W(1), W(0), W(1), W(1), W(4)),
      Rec(F0, F2, W(0), W(1), U32Max, W(1), W(0)),
      Rec(FNaN, F2, W(1), W(1), W(1), W(1), W(4)) }

\* What is added to the atlas count field 4 * (number of records).
CountTampers == {0, 1, 4}

ModelName(first) == <<first>> \o Zeros(NameSize - 1)

\* The offset fields a writer stores for a submesh, each in 32 bits.
StoredOffsets(m) ==
    LET bump(field) == IF m.tamper = field THEN W(1) ELSE W(0)
        r1 == AsU32(WAdd(W(VlistAddr), WMul(VertexSize, m.shape.nv)))
        r2 == AsU32(WAdd(r1, WMul(TexCoordSize, m.shape.nuv)))
        r3 == AsU32(WAdd(r2, WMul(FaceSize, m.shape.nf)))
    IN  [vlist_addr |-> WAdd(W(VlistAddr), bump("vlist_addr")),
         r1 |-> AsU32(WAdd(r1, bump("r1"))),
         r2 |-> AsU32(WAdd(r2, bump("r2"))),
         r3 |-> AsU32(WAdd(r3, bump("r3")))]

\* The 0x7c bytes of a submesh header.
MkSubmeshHeader(m) ==
    LET o == StoredOffsets(m)
    IN  ModelName(83) \o Zeros(4 * NumUnknownFloats)
        \o LE32(m.shape.nv) \o LE32(m.shape.nuv) \o LE32(m.shape.nf)
        \o LE32(o.vlist_addr) \o LE32(o.r1) \o LE32(o.r2) \o LE32(o.r3)

MeshSize(m) ==
    WAdd(W(VlistAddr), SubmeshDataSize(m.shape.nv, m.shape.nuv, m.shape.nf))

\* The six fields of an atlas record.
MkAtlasRecord(a) ==
    LE32(a.width) \o LE32(a.height) \o LE32(a.width_pow_2)
    \o LE32(a.height_pow_2) \o LE32(a.width_minus_1) \o LE32(a.height_minus_1)

AtlasSize(a) == WAdd(W(AtlasRecordSize), a.pix)

\* Where each of the consecutive parts of the given sizes starts, from `at`.
RECURSIVE Starts(_, _, _)
Starts(sizes, i, at) ==
    IF i > Len(sizes) THEN <<>>
    ELSE <<at>> \o Starts(sizes, i + 1, WAdd(at, sizes[i]))

RECURSIVE Total(_, _)
Total(sizes, i) ==
    IF i > Len(sizes) THEN W(0) ELSE WAdd(sizes[i], Total(sizes, i + 1))

\* The buffer of a model named by the byte `first`, with the submeshes
\* `ms` and the atlas records `as`, its count field off by `extra`, the atlas
\* table before the submeshes when `atlasFirst`, and `cut` bytes missing at
\* the end.
MkModel(first, ms, as, extra, atlasFirst, cut) ==
    LET ns == Len(ms)
        na == Len(as)
        tableEnd == W(HeaderSkip + NameSize + 2 + PaletteSkip + PaletteSize
                      + 4 + 4 * ns)
        meshSizes == [i \in 1..ns |-> MeshSize(ms[i])]
        atlasSizes == [i \in 1..na |-> AtlasSize(as[i])]
        atlasLead == W(4 * (IF na > 1 THEN na ELSE 1))
        atlasTotal == WAdd(atlasLead, Total(atlasSizes, 1))
        meshStart == IF atlasFirst THEN WAdd(tableEnd, atlasTotal) ELSE tableEnd
        meshEnd == WAdd(meshStart, Total(meshSizes, 1))
        atlasStart == IF atlasFirst THEN tableEnd ELSE meshEnd
        meshAt == Starts(meshSizes, 1, meshStart)
        atlasAt == Starts(atlasSizes, 1, WAdd(atlasStart, atlasLead))
        end == IF atlasFirst THEN meshEnd ELSE WAdd(atlasStart, atlasTotal)
    IN  [len |-> WSub(end, W(cut)),
         segs |->
           << [at |-> W(0),
               bytes |-> Zeros(HeaderSkip) \o ModelName(first) \o LE16(ns)],
              [at |-> WSub(tableEnd, W(4 + 4 * ns)),
               bytes |-> LE32(AsU32(atlasStart))
                         \o Concat([i \in 1..ns |-> LE32(AsU32(meshAt[i]))])],
              [at |-> atlasStart, bytes |-> LE32(W(4 * na + extra))] >>
           \o [i \in 1..ns |-> [at |-> meshAt[i], bytes |-> MkSubmeshHeader(ms[i])]]
           \o [i \in 1..na |-> [at |-> atlasAt[i], bytes |-> MkAtlasRecord(as[i])]]]

\* Buffers too short for the header, or for the table that follows it.
ShortModels ==
    { [len |-> W(k), segs |-> <<[at |-> W(0),
                                 bytes |-> Zeros(HeaderSkip) \o ModelName(77)
                                           \o LE16(1)]>>]
      : k \in {0, HeaderSkip + NameSize, 1000, 1068} }

\* The length of a buffer that ends inside the payload of its only submesh.
TruncatedLen == W(1300)

\* One part of the model varies at a time: its submeshes, its atlas table,
\* its name or its length; and each shape once in a buffer that holds its
\* header and less than its payload.
MdlBuffers ==
    {MkModel(77, ms, <<PlainAtlas>>, 0, TRUE, 0) : ms \in SeqsUpTo(Meshes, MaxSubmeshes)}
    \cup {MkModel(77, <<PlainMesh>>, as, 0, FALSE, 0) :
            as \in SeqsUpTo(AtlasShapes, MaxSubBitmaps)}
    \cup {MkModel(77, <<PlainMesh>>, as, extra, FALSE, 0) :
            as \in SeqsUpTo({PlainAtlas}, MaxSubBitmaps), extra \in CountTampers}
    \cup {MkModel(first, <<PlainMesh>>, <<PlainAtlas>>, 0, FALSE, cut) :
            first \in {77, 255}, cut \in {0, 1, 28}}
    \cup {[MkModel(77, <<[shape |-> s, tamper |-> "none"]>>, <<PlainAtlas>>, 0, TRUE, 0)
              EXCEPT !.len = TruncatedLen] : s \in MeshShapes}
    \cup ShortModels

(***************************************************************************)
(* Qfg5Model::new: the actions                                             *)
(***************************************************************************)

\* qfg5mdl.rs:71-72  the call: a cursor at the start of the caller's buffer.
MdlInit ==
    /\ mdl_data \in MdlBuffers
    /\ cursor = W(0)
    /\ mdl = [MdlLocals EXCEPT !.pc = "start"]
    /\ submeshes = <<>>
    /\ subbitmaps = <<>>
    /\ overflow_checks \in BOOLEAN
    /\ RleIdle
    /\ SpkIdle
    /\ LaterIdle

\* qfg5mdl.rs:73-90
MdlNewHeader ==
    /\ mdl.pc = "start"
    /\ LET r == MdlHeader(mdl_data, mdl)
       IN  /\ mdl' = r.mdl
           /\ cursor' = r.cursor
    /\ UNCHANGED <<mdl_data, submeshes, subbitmaps, overflow_checks, rleVars, spkVars, laterVars>>

\* qfg5mdl.rs:91-147  one iteration of `for n in 0..num_submeshes`.
MdlNewSubmesh ==
    /\ mdl.pc = "submeshes"
    /\ mdl.n < mdl.num_submeshes
    /\ LET r == MdlSubmesh(mdl_data, mdl, overflow_checks)
       IN  /\ mdl' = r.mdl
           /\ cursor' = r.cursor
           /\ submeshes' = IF r.mdl.pc = "submeshes"
                           THEN Append(submeshes, r.submesh)
                           ELSE submeshes
    /\ UNCHANGED <<mdl_data, subbitmaps, overflow_checks, rleVars, spkVars, laterVars>>

\* qfg5mdl.rs:149-158  after the last submesh: the atlas count.
MdlNewAtlas ==
    /\ mdl.pc = "submeshes"
    /\ mdl.n = mdl.num_submeshes
    /\ LET r == MdlAtlas(mdl_data, mdl)
       IN  /\ mdl' = r.mdl
           /\ cursor' = r.cursor
    /\ UNCHANGED <<mdl_data, submeshes, subbitmaps, overflow_checks, rleVars, spkVars, laterVars>>

\* qfg5mdl.rs:159-176  one iteration of `for n in 0..num_subbitmaps`.
MdlNewSubBitmap ==
    /\ mdl.pc = "subbitmaps"
    /\ WLt(W(mdl.n), mdl.num_subbitmaps)
    /\ LET r == MdlSubBitmap(mdl_data, mdl, cursor, overflow_checks)
       IN  /\ mdl' = r.mdl
           /\ cursor' = r.cursor
           /\ subbitmaps' = IF r.mdl.pc = "subbitmaps"
                            THEN Append(subbitmaps, r.subbitmap)
                            ELSE subbitmaps
    /\ UNCHANGED <<mdl_data, submeshes, overflow_checks, rleVars, spkVars, laterVars>>

\* qfg5mdl.rs:177  Ok(Qfg5Model{ name, palette, submeshes, subbitmaps })
MdlNewReturn ==
    /\ mdl.pc = "subbitmaps"
    /\ W(mdl.n) = mdl.num_subbitmaps
    /\ mdl' = [mdl EXCEPT !.pc = "ok"]
    /\ UNCHANGED <<mdl_data, cursor, submeshes, subbitmaps>>
    /\ UNCHANGED <<overflow_checks, rleVars, spkVars, laterVars>>

MdlNext ==
    \/ MdlNewHeader
    \/ MdlNewSubmesh
    \/ MdlNewAtlas
    \/ MdlNewSubBitmap
    \/ MdlNewReturn

SpecMdl == MdlInit /\ [][MdlNext]_vars

MdlTypeOK ==
    /\ mdl.pc \in {"start", "submeshes", "subbitmaps", "ok", "err", "panic"}
    /\ mdl.err \in {"", "io", "utf8", "vlist_addr", "r1", "r2", "r3",
                    "num_subbitmaps", "width", "height", "width_pow_2",
                    "height_pow_2"}
    /\ InU32(mdl.bitmap_texture_offset) /\ InU32(mdl.num_subbitmaps)
    /\ Len(submeshes) <= mdl.num_submeshes
    /\ \A i \in 1..Len(subbitmaps) :
         InU32(subbitmaps[i].width) /\ InU32(subbitmaps[i].height)

(***************************************************************************)
(* decode_rle: the claims                                                  *)
(***************************************************************************)

Take(s, k) == SubSeq(s, 1, k)

\* The byte stream the run-length format describes, cut at `limit` bytes:
\* control 0 is skipped, a repeat run yields `control` copies of its value
\* byte, a literal run yields the bytes that follow it; a run the input ends
\* in yields the bytes that are there.
RECURSIVE RefDecode(_, _, _, _)
RefDecode(d, pos, acc, limit) ==
    IF Len(acc) >= limit THEN Take(acc, limit)
    ELSE IF pos >= Len(d) THEN acc
    ELSE LET c == At(d, pos)
         IN  IF c = 0 THEN RefDecode(d, pos + 1, acc, limit)
             ELSE IF c < 128
             THEN IF pos + 1 >= Len(d) THEN acc
                  ELSE RefDecode(d, pos + 2, acc \o [i \in 1..c |-> At(d, pos + 1)], limit)
             ELSE LET k == IF 256 - c <= Len(d) - (pos + 1)
                           THEN 256 - c ELSE Len(d) - (pos + 1)
                  IN  RefDecode(d, pos + 257 - c,
                                acc \o SubSeq(d, pos + 2, pos + 1 + k), limit)

Decoded == RefDecode(data, 0, <<>>, Len(output))

\* C1: whenever the runs of the input produce at least output.len() bytes,
\* decode_rle completes normally whatever bytes follow, and on return the
\* output holds the first output.len() decoded bytes.
C1_StopsWhenOutputFull ==
    Len(Decoded) >= Len(output) =>
        /\ rle_pc # "panicked"
        /\ rle_pc = "returned" => output = Decoded

\* C2: whenever the input ends before the output is full, decode_rle
\* completes normally, and on return the output holds the decoded bytes
\* followed by the caller's bytes, unchanged.
C2_TruncatedInputNoError ==
    Len(Decoded) < Len(output) =>
        /\ rle_pc # "panicked"
        /\ rle_pc = "returned" =>
              output = Decoded \o SubSeq(output_init, Len(Decoded) + 1, Len(output))

\* d[pos..] is a sequence of complete literal runs.
RECURSIVE IsLiteralEncoding(_, _)
IsLiteralEncoding(d, pos) ==
    IF pos = Len(d) THEN TRUE
    ELSE IF pos > Len(d) THEN FALSE
    ELSE At(d, pos) >= 128 /\ IsLiteralEncoding(d, pos + 257 - At(d, pos))

\* The bytes a sequence of complete literal runs carries.
RECURSIVE LiteralPayload(_, _)
LiteralPayload(d, pos) ==
    IF pos >= Len(d) THEN <<>>
    ELSE SubSeq(d, pos + 2, pos + 257 - At(d, pos))
             \o LiteralPayload(d, pos + 257 - At(d, pos))

C3_IsCase ==
    /\ IsLiteralEncoding(data, 0)
    /\ Len(LiteralPayload(data, 0)) = Len(output)

C3_EndToEnd ==
    C3_IsCase =>
        /\ rle_pc # "panicked"
        /\ Take(output, output_index) = Take(LiteralPayload(data, 0), output_index)
        /\ rle_pc = "returned" => output = LiteralPayload(data, 0)

C3_Run ==
    LET c == At(data, n)
    IN  (/\ rle_pc = "loop"
         /\ n < Len(data)
         /\ c >= 128
         /\ n + (256 - c) < Len(data)
         /\ output_index + (256 - c) <= Len(output))
        => /\ rle_pc' = "loop"
           /\ n' = n + 257 - c
           /\ output_index' = output_index + (256 - c)
           /\ \A i \in 0..(Len(output) - 1) :
                At(output', i) =
                    IF i >= output_index /\ i < output_index + (256 - c)
                    THEN At(data, n + 1 + (i - output_index))
                    ELSE At(output, i)

\* C3: a control byte c in [128,255] with its 256 - c bytes present and room
\* for them copies exactly those bytes to the output and advances the input
\* by 257 - c; an input made of complete literal runs carrying L bytes,
\* decoded into an output of length L, returns with exactly those bytes.
C3_LiteralRuns == [](C3_EndToEnd) /\ [][C3_Run]_vars

C3_Witness ==
    /\ C3_IsCase
    /\ rle_pc = "returned"
    /\ Len(data) >= 3
    /\ At(data, 0) = 254
    /\ At(output, 0) # At(output, 1)

C4_IsCase ==
    /\ Len(data) = 2
    /\ At(data, 0) \in 1..127
    /\ Len(output) = At(data, 0)

C4_EndToEnd ==
    C4_IsCase =>
        /\ rle_pc # "panicked"
        /\ rle_pc = "returned" => output = [i \in 1..At(data, 0) |-> At(data, 1)]

C4_Run ==
    LET c == At(data, n)
    IN  (/\ rle_pc = "loop"
         /\ n + 1 < Len(data)
         /\ c \in 1..127
         /\ output_index + c <= Len(output))
        => /\ rle_pc' = "loop"
           /\ n' = n + 2
           /\ output_index' = output_index + c
           /\ \A i \in 0..(Len(output) - 1) :
                At(output', i) =
                    IF i >= output_index /\ i < output_index + c
                    THEN At(data, n + 1)
                    ELSE At(output, i)

\* C4: a control byte N in [1,127] with its value byte V present and room
\* for N bytes writes exactly N copies of V and advances the input by 2; the
\* input (N, V) decoded into an output of length N returns N copies of V.
C4_RepeatRuns == [](C4_EndToEnd) /\ [][C4_Run]_vars

C4_Witness ==
    /\ C4_IsCase
    /\ rle_pc = "returned"
    /\ At(data, 0) = 2
    /\ output = <<At(data, 1), At(data, 1)>>
    /\ At(data, 1) # At(output_init, 0)

(***************************************************************************)
(* SpkArchive: the claims                                                  *)
(***************************************************************************)

\* The archive as the format lays it out, read from the file's bytes with
\* exact integers.
TrPos(bf) == WSub(bf.len, W(TrailerSize))

TrPk(bf) == ReadU16(bf, TrPos(bf))

TrId(bf) == ReadU16(bf, WAdd(TrPos(bf), W(2)))

TrNumFiles(bf) == ReadU16(bf, WAdd(TrPos(bf), W(8)))

TrNumFilesDup(bf) == ReadU16(bf, WAdd(TrPos(bf), W(10)))

TrA(bf) == ReadU32(bf, WAdd(TrPos(bf), W(12)))

TrB(bf) == ReadU32(bf, WAdd(TrPos(bf), W(16)))

ExactDirectoryOffset(bf) == WSub(WSub(bf.len, TrA(bf)), W(TrailerSize))

ExactLocalFileStart(bf) == WSub(ExactDirectoryOffset(bf), TrB(bf))

HasTrailer(bf) == WLe(W(TrailerSize), bf.len)

TrailerChecksPass(bf) ==
    /\ HasTrailer(bf)
    /\ TrPk(bf) = PkMagic
    /\ TrId(bf) = PkId
    /\ TrNumFiles(bf) = TrNumFilesDup(bf)

\* One of the k directory records from p on, each read in full, has a
\* compressed size different from its decompressed size.
RECURSIVE DirHasCompressed(_, _, _)
DirHasCompressed(bf, p, k) ==
    IF k = 0 \/ WLt(p, W(0)) \/ ~CanRead(bf, p, W(46)) THEN FALSE
    ELSE IF ReadU32(bf, WAdd(p, W(20))) # ReadU32(bf, WAdd(p, W(24))) THEN TRUE
    ELSE LET fnl == ReadU32(bf, WAdd(p, W(28)))
         IN  CanRead(bf, WAdd(p, W(46)), fnl)
                /\ DirHasCompressed(bf, WAdd(WAdd(p, W(46)), fnl), k - 1)

SpkFinished == spk.pc \in {"ok", "err", "panic"}

\* C5: once open has finished on a file with a trailer, a wrong first magic
\* gives the first error, else a wrong second magic the second, else unequal
\* counts the third, else a directory record with unequal sizes the fourth;
\* in none of these cases is an archive returned.
C5_OpenErrors ==
    (SpkFinished /\ HasTrailer(f)) =>
        /\ TrPk(f) # PkMagic => (spk.pc = "err" /\ spk.err = "pk")
        /\ (TrPk(f) = PkMagic /\ TrId(f) # PkId) => (spk.pc = "err" /\ spk.err = "id")
        /\ (TrPk(f) = PkMagic /\ TrId(f) = PkId /\ TrNumFiles(f) # TrNumFilesDup(f))
              => (spk.pc = "err" /\ spk.err = "count")
        /\ (TrailerChecksPass(f)
                /\ DirHasCompressed(f, ExactDirectoryOffset(f), TrNumFiles(f)))
              => (spk.pc = "err" /\ spk.err = "compressed")

\* The entries the directory describes: k records from p on, the first of
\* them entry number idx.
RECURSIVE DirEntries(_, _, _, _)
DirEntries(bf, p, k, idx) ==
    IF k = 0 THEN <<>>
    ELSE LET fnl == ReadU32(bf, WAdd(p, W(28)))
             loc == ReadU32(bf, WAdd(p, W(42)))
         IN  <<[filename |-> ReadBytes(bf, WAdd(p, W(46)), WInt(fnl)),
                offset |-> WAdd(WAdd(WAdd(ExactLocalFileStart(bf), loc),
                                     W(LocalHeaderSize)), fnl),
                length |-> ReadU32(bf, WAdd(p, W(24)))]>>
                 \o DirEntries(bf, WAdd(WAdd(p, W(46)), fnl), k - 1, idx + 1)

\* The k records from p on are complete, uncompressed, named in UTF-8, lie
\* back to back up to the trailer, and their entries lie in the file.
RECURSIVE DirWellFormed(_, _, _)
DirWellFormed(bf, p, k) ==
    IF k = 0 THEN p = TrPos(bf)
    ELSE /\ WLe(WAdd(p, W(46)), TrPos(bf))
         /\ ReadU32(bf, WAdd(p, W(20))) = ReadU32(bf, WAdd(p, W(24)))
         /\ LET fnl == ReadU32(bf, WAdd(p, W(28)))
                loc == ReadU32(bf, WAdd(p, W(42)))
                off == WAdd(WAdd(WAdd(ExactLocalFileStart(bf), loc),
                                 W(LocalHeaderSize)), fnl)
            IN  /\ fnl[1] = 0
                /\ WLe(WAdd(WAdd(p, W(46)), fnl), TrPos(bf))
                /\ IsUtf8(ReadBytes(bf, WAdd(p, W(46)), WInt(fnl)), 1)
                /\ WLe(WAdd(off, ReadU32(bf, WAdd(p, W(24)))), ExactDirectoryOffset(bf))
                /\ DirWellFormed(bf, WAdd(WAdd(p, W(46)), fnl), k - 1)

\* The size of the local files of the k records from p on.
RECURSIVE DirLocalSize(_, _, _)
DirLocalSize(bf, p, k) ==
    IF k = 0 THEN W(0)
    ELSE LET fnl == ReadU32(bf, WAdd(p, W(28)))
         IN  WAdd(WAdd(WAdd(W(LocalHeaderSize), fnl), ReadU32(bf, WAdd(p, W(24)))),
                  DirLocalSize(bf, WAdd(WAdd(p, W(46)), fnl), k - 1))

\* A trailer that passes the checks, a directory of well-formed records
\* that takes the `a` bytes before the trailer, and before it the `b` bytes
\* of the local files.
WellFormedArchive(bf) ==
    /\ TrailerChecksPass(bf)
    /\ WLe(W(0), ExactLocalFileStart(bf))
    /\ DirWellFormed(bf, ExactDirectoryOffset(bf), TrNumFiles(bf))
    /\ TrB(bf) = DirLocalSize(bf, ExactDirectoryOffset(bf), TrNumFiles(bf))

ExpectedItems(bf) == DirEntries(bf, ExactDirectoryOffset(bf), TrNumFiles(bf), 0)

\* C6: on a well-formed archive open does not fail, the entries it has read
\* are those the directory describes, in order, and a finished read_item
\* returned the bytes [offset, offset + length) the directory describes.
C6_WellFormedArchive ==
    WellFormedArchive(f) =>
        /\ spk.pc \notin {"err", "panic"}
        /\ spk.pc \in {"records", "ok"} => items = Take(ExpectedItems(f), spk.n)
        /\ \A t \in Threads :
              /\ rd[t].st # "err"
              /\ rd[t].st = "ok" =>
                    LET e == ExpectedItems(f)[rd[t].item]
                    IN  rd[t].buf = ReadBytes(f, e.offset, WInt(e.length))

\* C7: once the trailer is read the directory is read from
\* file_len - a - 0x16, and every entry read has the offset
\* (file_len - a - b - 0x16) + item_location + 0x42 + filename_length,
\* both as exact integers.
C7_ExactOffsets ==
    spk.pc \in {"records", "ok"} =>
        /\ spk.central_directory_offset = ExactDirectoryOffset(f)
        /\ spk.n >= 1 =>
              items[spk.n].offset =
                  WAdd(WAdd(WAdd(ExactLocalFileStart(f), spk.item_location),
                            W(LocalHeaderSize)), spk.fname_len)

\* The bytes of entry i as the archive holds them.
ItemInFile(i) == CanRead(f, items[i].offset, items[i].length)

ItemBytes(i) == ReadBytes(f, items[i].offset, WInt(items[i].length))

C8_Results ==
    \A t \in Threads :
        LET c == rd[t]
        IN  /\ c.st = "ok" => c.buf = ItemBytes(c.item)
            /\ c.st = "reading" => Take(c.buf, c.got) = Take(ItemBytes(c.item), c.got)
            /\ c.st = "err" => ~ItemInFile(c.item)

C8_NoSeek == (rd' # rd) => (f' = f)

\* C8: under every interleaving of read_item calls of several threads, a call
\* that returned holds exactly the bytes [offset, offset + length) of its own
\* entry, a call fails only when that range is not in the file, and no step
\* of read_item reads or moves the file's seek position.
C8_ConcurrentReads == [](C8_Results) /\ [][C8_NoSeek]_vars

C8_Witness ==
    /\ rd[1].st = "ok" /\ rd[1].buf = <<161, 162>>
    /\ rd[2].st = "reading" /\ rd[2].got = 1 /\ rd[2].item # rd[1].item
    /\ Len(rd[2].buf) = 2

(***************************************************************************)
(* Qfg5Model::new: the claims                                              *)
(***************************************************************************)

MdlFinished == mdl.pc \in {"ok", "err", "panic"}

\* The fields of the header of submesh i, as they stand in the buffer.
HdrField(i, k) ==
    ReadU32(mdl_data, Off(mdl.submesh_offset[i], NameSize + 4 * NumUnknownFloats + k))

HdrPresent(i) == CanRead(mdl_data, mdl.submesh_offset[i], W(VlistAddr))

\* The four equalities of the structural checksum, over the integers.
ChecksumHolds(i) ==
    LET num_vertices == HdrField(i, 0)
        num_texcoords == HdrField(i, 4)
        num_faces == HdrField(i, 8)
        vlist_addr == HdrField(i, 12)
        r1 == HdrField(i, 16)
        r2 == HdrField(i, 20)
        r3 == HdrField(i, 24)
    IN  /\ vlist_addr = W(124)
        /\ r1 = WAdd(vlist_addr, WMul(12, num_vertices))
        /\ r2 = WAdd(r1, WMul(8, num_texcoords))
        /\ r3 = WAdd(r2, WMul(40, num_faces))

C9_OnlyIf ==
    mdl.pc = "ok" => \A i \in 1..mdl.num_submeshes : ChecksumHolds(i)

C9_Perturbed ==
    (/\ MdlFinished
     /\ \E i \in 1..Len(mdl.submesh_offset) : HdrPresent(i) /\ ~ChecksumHolds(i))
    => mdl.pc = "err"

\* C9: a model decodes successfully only if every submesh has
\* vlist_addr = 0x7c, r1 = vlist_addr + 12 * num_vertices,
\* r2 = r1 + 8 * num_texcoords and r3 = r2 + 40 * num_faces, for all 32-bit
\* values of the fields; and a buffer holding a submesh header in which one of
\* these equalities fails always ends in a decode error, never in a model
\* (and never in anything else).
C9_StructuralChecksum == C9_OnlyIf /\ C9_Perturbed

None == <<-1, 0>>

\* The value of an f32 when it is an integer in 0..2^32, else None.
F32Exact(bits) ==
    LET e == F32Exp(bits)
        full == F32Full(bits)
    IN  IF e = 0 /\ F32Mant(bits) = 0 THEN W(0)
        ELSE IF F32Sign(bits) = 1 \/ e > 159 \/ e < 127 THEN None
        ELSE IF e >= 150 THEN WMul(Pow2(e - 150), W(full))
        ELSE IF full % Pow2(150 - e) = 0 THEN W(full \div Pow2(150 - e))
        ELSE None

\* 2^k for a u32 k, when it is at most 2^32, else None.
ExactPow2(k) == IF k[1] = 0 /\ k[2] <= 32 THEN Pow2W(k[2]) ELSE None

\* x * y over the integers.
Product(x, y) ==
    LET p0 == Mul16(x[2], y[2])
        cross == WAdd(Mul16(x[1], y[2]), Mul16(y[1], x[2]))
    IN  <<(x[1] * y[1]) * Limb + WInt(cross) + p0[1], p0[2]>>

\* The four equalities of an atlas record, over the reals.
RecordSound(rec) ==
    /\ F32Exact(rec.width) = WAdd(rec.width_minus_1, W(1))
    /\ F32Exact(rec.height) = WAdd(rec.height_minus_1, W(1))
    /\ F32Exact(rec.width) = ExactPow2(rec.width_pow_2)
    /\ F32Exact(rec.height) = ExactPow2(rec.height_pow_2)

C10_SubBitmaps ==
    mdl.pc = "ok" =>
        \A i \in 1..Len(subbitmaps) :
            LET sb == subbitmaps[i]
                rec == mdl.records[i]
            IN  /\ sb.width = WAdd(rec.width_minus_1, W(1))
                /\ sb.width = ExactPow2(rec.width_pow_2)
                /\ sb.height = WAdd(rec.height_minus_1, W(1))
                /\ sb.height = ExactPow2(rec.height_pow_2)
                /\ sb.bitmap = Product(sb.width, sb.height)

C10_Rejects ==
    (/\ MdlFinished
     /\ \E i \in 1..Len(mdl.records) : ~RecordSound(mdl.records[i]))
    => mdl.pc = "err"

\* C10: every SubBitmap of a successfully decoded model has
\* width = width_minus_1 + 1 = 2^width_pow_2,
\* height = height_minus_1 + 1 = 2^height_pow_2 and a pixel buffer of exactly
\* width * height bytes, for all 32-bit values of the record's fields; and a
\* decode that read an atlas record violating one of the four equalities
\* ends in an error.
C10_AtlasInvariant == C10_SubBitmaps /\ C10_Rejects

(***************************************************************************)
(* AnmDecoder::new                                                         *)
(***************************************************************************)

\* qfg5anm.rs:31  the two magics, 0x564f5838 and 0x5452494d.
AnmMagics_Any == {<<22095, 22584>>, <<21586, 18765>>, <<21586, 18764>>}
AnmMagics == {<<22095, 22584>>, <<21586, 18765>>}
\* qfg5anm.rs:33
AnmHeaderSize == 36
\* qfg5anm.rs:46-56  two u32, three f32 and nine f32.
AnmBlockSize == 56
\* qfg5anm.rs:49
NumTranslation == 3
\* qfg5anm.rs:53
NumRotation == 9

\* A buffer holding the given bytes.
MkBuf(bytes) == [len |-> W(Len(bytes)), segs |-> <<[at |-> W(0), bytes |-> bytes]>>]

AnmFail(loc, kind) == [loc EXCEPT !.pc = "err", !.err = kind]

AnmLocals ==
    [pc |-> "start", err |-> "", cursor |-> W(0), name |-> <<>>,
     num_anims |-> W(0), num_anim_blocks |-> W(0), delay |-> W(0),
     blocks |-> <<>>]

\* qfg5anm.rs:29-42  the magic, the header size, the name, the two counts
\* and the delay.
AnmHeader(bf, loc) ==
    LET magic == ReadU32(bf, W(0))
        header_size == ReadU32(bf, W(4))
        name == ReadBytes(bf, W(8), NameSize)
    IN  IF ~CanRead(bf, W(0), W(4)) THEN AnmFail(loc, "io")
        ELSE IF magic \notin AnmMagics THEN AnmFail(loc, "magic")
        ELSE IF ~CanRead(bf, W(4), W(4)) THEN AnmFail(loc, "io")
        ELSE IF header_size # W(AnmHeaderSize) THEN AnmFail(loc, "header_size")
        ELSE IF ~CanRead(bf, W(8), W(NameSize)) THEN AnmFail(loc, "io")
        ELSE IF ~IsUtf8(name, 1) THEN AnmFail(loc, "utf8")
        ELSE IF ~CanRead(bf, W(8 + NameSize), W(12)) THEN AnmFail(loc, "io")
        ELSE [loc EXCEPT !.pc = "anims",
                         !.cursor = W(8 + NameSize + 12),
                         !.name = name,
                         !.num_anims = ReadU32(bf, W(8 + NameSize)),
                         !.num_anim_blocks = ReadU32(bf, W(12 + NameSize)),
                         !.delay = ReadU32(bf, W(16 + NameSize))]

\* qfg5anm.rs:46-57  one block at the cursor: the two guard fields, then the
\* translation and the rotation, kept as the bit patterns of their floats.
AnmBlock(bf, loc) ==
    LET pos == loc.cursor
        a == ReadU32(bf, pos)
        b == ReadU32(bf, Off(pos, 4))
        floats == [k \in 1..(NumTranslation + NumRotation) |->
                      ReadU32(bf, Off(pos, 8 + 4 * (k - 1)))]
    IN  IF ~CanRead(bf, pos, W(8)) THEN AnmFail(loc, "io")
        ELSE IF a # W(1) \/ b # W(0) THEN AnmFail(loc, "ab")
        ELSE IF ~CanRead(bf, pos, W(AnmBlockSize)) THEN AnmFail(loc, "io")
        ELSE [loc EXCEPT
                !.cursor = Off(pos, AnmBlockSize),
                !.blocks = Append(loc.blocks,
                    [translation |-> SubSeq(floats, 1, NumTranslation),
                     rotation |-> SubSeq(floats, NumTranslation + 1,
                                         NumTranslation + NumRotation)])]

\* qfg5anm.rs:61  whether the cursor sits at the end of the buffer.
AnmAtEnd_AtMost(pos, len) == WLe(pos, len)
AnmAtEnd(pos, len) == pos = len

(***************************************************************************)
(* Animation buffers                                                       *)
(***************************************************************************)

\* The 48 bytes of the floats of block k: distinct, nonzero bytes.
BlockFloats(k) == [i \in 1..(4 * (NumTranslation + NumRotation)) |-> (16 * k + i) % 256]

MkBlock(a, b, k) == LE32(W(a)) \o LE32(W(b)) \o BlockFloats(k)

\* What is wrong with a block, if anything: its first or its second field.
BlockTampers == {"none", "a-first", "b-first", "a-last"}

\* What follows the declared blocks, or is missing from them.
AnmTails == {"exact", "byte", "block", "short-byte", "short-fields"}

\* An animation of na anims of nb blocks each.
MkAnm(magic, header_size, first, na, nb, tamper, tail) ==
    LET count == na * nb
        blocks == Concat([k \in 1..count |->
                     MkBlock(IF (tamper = "a-first" /\ k = 1)
                                \/ (tamper = "a-last" /\ k = count) THEN 2 ELSE 1,
                             IF tamper = "b-first" /\ k = 1 THEN 1 ELSE 0,
                             k)])
        whole == LE32(magic) \o LE32(W(header_size)) \o ModelName(first)
                 \o LE32(W(na)) \o LE32(W(nb)) \o LE32(W(7)) \o blocks
        cut == IF tail = "short-byte" THEN 1
               ELSE IF tail = "short-fields" THEN AnmBlockSize - 4 ELSE 0
        kept == IF cut > Len(whole) THEN 0 ELSE Len(whole) - cut
    IN  MkBuf(SubSeq(whole, 1, kept)
              \o (IF tail = "byte" THEN <<0>>
                  ELSE IF tail = "block" THEN MkBlock(1, 0, count + 1)
                  ELSE <<>>))

\* The two magics and one that is neither.
AnmMagicFields == {<<22095, 22584>>, <<21586, 18765>>, <<21586, 18764>>}

\* A count of 2^32 - 1 blocks in a buffer that holds one.
HugeAnm ==
    MkBuf(LE32(<<22095, 22584>>) \o LE32(W(AnmHeaderSize)) \o ModelName(65)
          \o LE32(W(1)) \o LE32(U32Max) \o LE32(W(7)) \o MkBlock(1, 0, 1))

AnmBuffers ==
    { MkAnm(magic, hs, first, na, nb, tamper, tail) :
        magic \in AnmMagicFields, hs \in {AnmHeaderSize, AnmHeaderSize - 1},
        first \in {65, 255}, na \in 0..MaxAnims, nb \in 0..MaxBlocks,
        tamper \in BlockTampers, tail \in AnmTails }
    \cup {HugeAnm}
    \cup {MkBuf(Zeros(k)) : k \in {0, 3}}

(***************************************************************************)
(* AnmDecoder::new: the actions                                            *)
(***************************************************************************)

\* qfg5anm.rs:28-29  the call: a cursor at the start of the caller's buffer.
AnmInit ==
    /\ anm_data \in AnmBuffers
    /\ anm = AnmLocals
    /\ anims = <<>>
    /\ overflow_checks \in BOOLEAN
    /\ RleIdle /\ SpkIdle /\ MdlIdle /\ LastIdle
    /\ QgmIdle /\ CipherIdle /\ B36Idle /\ GraIdle /\ PalIdle

\* qfg5anm.rs:30-42
AnmNewHeader ==
    /\ anm.pc = "start"
    /\ anm' = AnmHeader(anm_data, anm)
    /\ UNCHANGED <<anm_data, anims, anmRest>>

\* qfg5anm.rs:45-58  one iteration of `for _ in 0..num_anim_blocks`.
AnmNewBlock ==
    /\ anm.pc = "anims"
    /\ WLt(W(Len(anims)), anm.num_anims)
    /\ WLt(W(Len(anm.blocks)), anm.num_anim_blocks)
    /\ anm' = AnmBlock(anm_data, anm)
    /\ UNCHANGED <<anm_data, anims, anmRest>>

\* qfg5anm.rs:43-44,59  the blocks of an anim are read: it is pushed and the
\* next one starts with no blocks.
AnmNewAnim ==
    /\ anm.pc = "anims"
    /\ WLt(W(Len(anims)), anm.num_anims)
    /\ W(Len(anm.blocks)) = anm.num_anim_blocks
    /\ anims' = Append(anims, [blocks |-> anm.blocks])
    /\ anm' = [anm EXCEPT !.blocks = <<>>]
    /\ UNCHANGED <<anm_data, anmRest>>

\* qfg5anm.rs:61-68  after the last anim: the end-of-buffer check.
AnmNewReturn ==
    /\ anm.pc = "anims"
    /\ W(Len(anims)) = anm.num_anims
    /\ anm' = IF AnmAtEnd(anm.cursor, anm_data.len)
              THEN [anm EXCEPT !.pc = "ok"]
              ELSE AnmFail(anm, "extra")
    /\ UNCHANGED <<anm_data, anims, anmRest>>

AnmNext == AnmNewHeader \/ AnmNewBlock \/ AnmNewAnim \/ AnmNewReturn

SpecAnm == AnmInit /\ [][AnmNext]_vars

(***************************************************************************)
(* AnmDecoder::new: the claims                                             *)
(***************************************************************************)

AnmFinished == anm.pc \in {"ok", "err"}

\* The count fields of the buffer, when it holds its 36-byte header.
AnmHasHeader == CanRead(anm_data, W(0), W(36))

AnmCount == Product(ReadU32(anm_data, W(24)), ReadU32(anm_data, W(28)))

\* 36 + 56 * num_anims * num_blocks.
AnmExpectedLen == WAdd(W(36), WMul(56, AnmCount))

\* The indices of the blocks the buffer has room for.
AnmBlockSlots == 0..((MaxAnims + 1) * (MaxBlocks + 1))

\* Block k (from 0) is one of the declared blocks and its two leading
\* fields are in the buffer.
AnmBlockPresent(k) ==
    /\ AnmHasHeader
    /\ WLt(W(k), AnmCount)
    /\ CanRead(anm_data, W(36 + 56 * k), W(8))

AnmBlockBad(k) ==
    /\ AnmBlockPresent(k)
    /\ \/ ReadU32(anm_data, W(36 + 56 * k)) # W(1)
       \/ ReadU32(anm_data, W(40 + 56 * k)) # W(0)

AnmMagicBad ==
    /\ CanRead(anm_data, W(0), W(4))
    /\ ReadU32(anm_data, W(0)) \notin {<<22095, 22584>>, <<21586, 18765>>}

AnmHeaderSizeBad ==
    /\ CanRead(anm_data, W(4), W(4))
    /\ ReadU32(anm_data, W(4)) # W(36)

AnmNameBad ==
    /\ CanRead(anm_data, W(8), W(16))
    /\ ~IsUtf8(ReadBytes(anm_data, W(8), 16), 1)

\* A buffer whose header and declared blocks all pass their checks.
AnmSound ==
    /\ AnmHasHeader
    /\ ~AnmMagicBad /\ ~AnmHeaderSizeBad /\ ~AnmNameBad
    /\ WLe(AnmExpectedLen, anm_data.len)
    /\ \A k \in AnmBlockSlots : ~AnmBlockBad(k)

C11_Exact ==
    anm.pc = "ok" =>
        /\ anm_data.len = AnmExpectedLen
        /\ W(Len(anims)) = ReadU32(anm_data, W(24))
        /\ \A i \in 1..Len(anims) :
             W(Len(anims[i].blocks)) = ReadU32(anm_data, W(28))

C11_Trailing ==
    (AnmFinished /\ AnmSound /\ WLt(AnmExpectedLen, anm_data.len))
    => (anm.pc = "err" /\ anm.err = "extra")

\* C11: the animation decode succeeds only if the buffer length is
\* 36 + 56 * num_anims * num_blocks, and then the result has num_anims anims
\* of exactly num_blocks blocks each; a buffer that passes every check and has
\* bytes after its last block fails with the 'extra data' error.
C11_ConsumesExactly == C11_Exact /\ C11_Trailing

\* A decoded animation of MaxAnims anims of MaxBlocks blocks.
C11_Witness ==
    /\ anm.pc = "ok"
    /\ Len(anims) = MaxAnims
    /\ Len(anims[1].blocks) = MaxBlocks

\* The guard of the claim that fails first in read order, if any.
AnmFirstGuard ==
    IF AnmMagicBad THEN "magic"
    ELSE IF AnmHeaderSizeBad THEN "header_size"
    ELSE IF \E k \in AnmBlockSlots : AnmBlockBad(k) THEN "ab"
    ELSE "none"

C12_Guards == anm.pc = "ok" => (AnmHasHeader /\ AnmFirstGuard = "none")

C12_FirstReported ==
    (AnmFinished /\ AnmFirstGuard # "none")
    => (anm.pc = "err" /\ anm.err = AnmFirstGuard)

\* C12 as stated: decode fails unless the magic is one of the two accepted
\* values, the header size is 36 and every block starts with 1 and 0; the
\* first of these guards that is violated, in read order, is the error
\* reported.
C12_FormatGuards == C12_Guards /\ C12_FirstReported

C12_FirstReportedOrName ==
    (AnmFinished /\ AnmFirstGuard # "none")
    => /\ anm.pc = "err"
       /\ anm.err = IF AnmFirstGuard = "ab" /\ AnmNameBad
                    THEN "utf8" ELSE AnmFirstGuard

\* C12, amended: as stated, except that a name that is not valid UTF-8 is
\* reported before the guard of any block.
C12_FormatGuardsAmended == C12_Guards /\ C12_FirstReportedOrName

\* Each guard has been the one reported, a block guard after a block that
\* passed it.
C12_Witness ==
    /\ anm.pc = "err"
    /\ anm.err = "ab"
    /\ Len(anm.blocks) + Len(anims) >= 1

(***************************************************************************)
(* demangle_text                                                           *)
(***************************************************************************)

\* a ^ b for two integers below 2^k.
RECURSIVE BitXor(_, _, _)
BitXor(a, b, k) ==
    IF k = 0 THEN 0
    ELSE ((a + b) % 2) + 2 * BitXor(a \div 2, b \div 2, k - 1)

\* v ^ w in u32.
Xor32(v, w) == <<BitXor(v[1], w[1], 16), BitXor(v[2], w[2], 16)>>

\* v.rotate_right(k) in u32.
RECURSIVE RotateRight(_, _)
RotateRight(v, k) ==
    IF k = 0 THEN v
    ELSE RotateRight(<<(v[1] \div 2) + 32768 * (v[2] % 2),
                       (v[2] \div 2) + 32768 * (v[1] % 2)>>, k - 1)

\* qfg5qgm.rs:20  0xf1acc1d
CipherKey == <<3866, 52253>>
\* qfg5qgm.rs:21
CipherRotation == 15

\* qfg5qgm.rs:19-26  one iteration of the first loop: the four characters
\* pushed for the word at pos.  A `u8 as char` is the character whose code
\* point is the byte.
DemangleWord(bytes, pos) ==
    LET v == <<bytes[pos + 3] + 256 * bytes[pos + 4],
               bytes[pos + 1] + 256 * bytes[pos + 2]>>
    IN  LE32(RotateRight(Xor32(v, CipherKey), CipherRotation))

\* qfg5qgm.rs:29-31  one iteration of the second loop: `!v`.
DemangleByte(b) == 255 - b

\* The bytes of a String: the UTF-8 encoding of its characters, here all
\* below U+0100.
RECURSIVE Utf8(_)
Utf8(chars) ==
    IF chars = <<>> THEN <<>>
    ELSE LET c == Head(chars)
         IN  (IF c < 128 THEN <<c>> ELSE <<192 + (c \div 64), 128 + (c % 64)>>)
             \o Utf8(Tail(chars))

\* The whole of demangle_text, as the characters of the String it returns.
RECURSIVE DemangleFrom(_, _)
DemangleFrom(bytes, pos) ==
    IF pos + 4 <= Len(bytes)
    THEN DemangleWord(bytes, pos) \o DemangleFrom(bytes, pos + 4)
    ELSE [i \in 1..(Len(bytes) - pos) |-> DemangleByte(bytes[pos + i])]

demangle_text(bytes) == DemangleFrom(bytes, 0)

\* The bytes texts are made of: ASCII, and bytes of 0x80 and more.
CipherBytes == {0, 65, 127, 128, 233, 255}

\* v.rotate_left(k) in u32.
RECURSIVE RotateLeft(_, _)
RotateLeft(v, k) ==
    IF k = 0 THEN v
    ELSE RotateLeft(<<((2 * v[1]) % Limb) + (v[2] \div 32768),
                      ((2 * v[2]) % Limb) + (v[1] \div 32768)>>, k - 1)

\* The transform demangle_text undoes: each word rotated left by 15 and
\* XORed with the key, each trailing byte complemented.
RECURSIVE Mangle(_, _)
Mangle(text, pos) ==
    IF pos + 4 <= Len(text)
    THEN LET v == <<text[pos + 3] + 256 * text[pos + 4],
                    text[pos + 1] + 256 * text[pos + 2]>>
         IN  LE32(Xor32(RotateLeft(v, 15), <<3866, 52253>>)) \o Mangle(text, pos + 4)
    ELSE [i \in 1..(Len(text) - pos) |-> 255 - text[pos + i]]

\* qfg5qgm.rs:15-17  the call, on stored bytes that are either arbitrary or
\* the mangled form of a text.
CipherInit ==
    /\ \E text \in SeqsUpTo(CipherBytes, MaxText), mangled \in BOOLEAN :
         cipher = [pc |-> "words", text |-> text, mangled |-> mangled,
                   data |-> IF mangled THEN Mangle(text, 0) ELSE text,
                   pos |-> 0, output |-> <<>>]
    /\ overflow_checks \in BOOLEAN
    /\ RleIdle /\ SpkIdle /\ MdlIdle /\ LastIdle
    /\ AnmIdle /\ QgmIdle /\ B36Idle /\ GraIdle /\ PalIdle

\* qfg5qgm.rs:19-27  one iteration of `while let Ok(v) = read_u32()`.
CipherWord ==
    /\ cipher.pc = "words"
    /\ cipher.pos + 4 <= Len(cipher.data)
    /\ cipher' = [cipher EXCEPT
                    !.output = cipher.output \o DemangleWord(cipher.data, cipher.pos),
                    !.pos = cipher.pos + 4]
    /\ UNCHANGED cipherRest

\* qfg5qgm.rs:19,29  fewer than four bytes are left: the first loop ends.
CipherWordsDone ==
    /\ cipher.pc = "words"
    /\ cipher.pos + 4 > Len(cipher.data)
    /\ cipher' = [cipher EXCEPT !.pc = "bytes"]
    /\ UNCHANGED cipherRest

\* qfg5qgm.rs:29-32  one iteration of `while let Ok(v) = read_u8()`.
CipherByte ==
    /\ cipher.pc = "bytes"
    /\ cipher.pos < Len(cipher.data)
    /\ cipher' = [cipher EXCEPT
                    !.output = Append(cipher.output,
                                      DemangleByte(cipher.data[cipher.pos + 1])),
                    !.pos = cipher.pos + 1]
    /\ UNCHANGED cipherRest

\* qfg5qgm.rs:33
CipherReturn ==
    /\ cipher.pc = "bytes"
    /\ cipher.pos = Len(cipher.data)
    /\ cipher' = [cipher EXCEPT !.pc = "returned"]
    /\ UNCHANGED cipherRest

CipherNext == CipherWord \/ CipherWordsDone \/ CipherByte \/ CipherReturn

SpecCipher == CipherInit /\ [][CipherNext]_vars

(***************************************************************************)
(* demangle_text: the claims                                               *)
(***************************************************************************)

\* The word at pos of the stored bytes, XORed with 0x0f1acc1d and rotated
\* right by 15, as its four little-endian bytes.
C14_WordImage(bytes, pos) ==
    LET v == <<bytes[pos + 3] + 256 * bytes[pos + 4],
               bytes[pos + 1] + 256 * bytes[pos + 2]>>
        x == Xor32(v, <<3866, 52253>>)
        r == RotateLeft(x, 32 - 15)
    IN  LE32(r)

C14_Map ==
    cipher.pc = "returned" =>
        LET d == cipher.data
            words == Len(d) \div 4
        IN  /\ Len(cipher.output) = Len(d)
            /\ \A w \in 0..(words - 1) :
                 SubSeq(cipher.output, 4 * w + 1, 4 * w + 4) = C14_WordImage(d, 4 * w)
            /\ \A i \in (4 * words + 1)..Len(d) : cipher.output[i] = 255 - d[i]

C14_RoundTrip ==
    (cipher.pc = "returned" /\ cipher.mangled /\ Len(cipher.text) % 4 = 0)
    => Utf8(cipher.output) = cipher.text

\* C14: demangle maps each complete little-endian word w to
\* rotate_right(w XOR 0x0f1acc1d, 15) and each trailing byte to its
\* complement; and for every text whose length is a multiple of 4 the bytes of
\* demangle(mangle(text)) are the bytes of text.
C14_TextCipher == C14_Map /\ C14_RoundTrip

(***************************************************************************)
(* QgmDecoder::new                                                         *)
(***************************************************************************)

\* qfg5qgm.rs:113  0x51474d20
QgmMagic == <<20807, 19744>>
\* qfg5qgm.rs:13
FLAG_TEXT_MANGLED == 4
\* qfg5qgm.rs:65  the bytes of a label record.
LabelRecordSize == 13
\* qfg5qgm.rs:69  the bytes of a label.
LabelSize == 12
\* qfg5qgm.rs:112-118  the bytes of the header.
QgmHeaderSize == 16
\* qfg5qgm.rs:123-138  the bytes of a message block header.
MessageHeaderSize == 32

QgmFail(loc, kind) == [loc EXCEPT !.pc = "err", !.err = kind]

QgmLocals ==
    [pc |-> "start", err |-> "", cursor |-> W(0), num_messages |-> W(0),
     file_id |-> 0, id |-> <<>>, speaker_id |-> 0, num_dialog_options |-> 0,
     flags |-> 0, msg_id |-> 0, msg_length |-> 0, msg_label_flag |-> 0,
     message_label |-> <<>>, dialog_options |-> <<>>, labels_read |-> <<>>]

\* qfg5qgm.rs:67  the terminator check of a label record.
LabelTerminated_Any(message) == TRUE
LabelTerminated(message) == message[LabelRecordSize] = 0

\* qfg5qgm.rs:64-72  QgmLabel::new at the cursor: the label's value, or the
\* failure; the record read is noted in labels_read.
QgmLabelNew(bf, loc) ==
    LET message == ReadBytes(bf, loc.cursor, LabelRecordSize)
        after == Off(loc.cursor, LabelRecordSize)
        seen == [loc EXCEPT !.cursor = after,
                            !.labels_read = Append(loc.labels_read,
                                [at |-> loc.cursor, end |-> after])]
    IN  IF ~CanRead(bf, loc.cursor, W(LabelRecordSize))
        THEN [ok |-> FALSE, loc |-> QgmFail(loc, "io"), value |-> <<>>]
        ELSE IF ~LabelTerminated(message)
        THEN [ok |-> FALSE, loc |-> QgmFail(seen, "label"), value |-> <<>>]
        ELSE [ok |-> TRUE, loc |-> seen, value |-> SubSeq(message, 1, LabelSize)]

\* qfg5qgm.rs:111-120  the header.
QgmHeader(bf, loc) ==
    IF ~CanRead(bf, W(0), W(4)) THEN QgmFail(loc, "io")
    ELSE IF ReadU32(bf, W(0)) # QgmMagic THEN QgmFail(loc, "magic")
    ELSE IF ~CanRead(bf, W(4), W(QgmHeaderSize - 4)) THEN QgmFail(loc, "io")
    ELSE [loc EXCEPT !.pc = "message",
                     !.cursor = W(QgmHeaderSize),
                     !.num_messages = ReadU32(bf, W(8)),
                     !.file_id = ReadU16(bf, W(14))]

\* qfg5qgm.rs:123-138  the sixteen u16 of a message block header.
QgmMessageHeader(bf, loc) ==
    LET field(k) == ReadU16(bf, Off(loc.cursor, 2 * k))
    IN  IF ~CanRead(bf, loc.cursor, W(MessageHeaderSize)) THEN QgmFail(loc, "io")
        ELSE [loc EXCEPT !.pc = "label",
                         !.cursor = Off(loc.cursor, MessageHeaderSize),
                         !.id = <<field(0), field(1), field(2), field(3)>>,
                         !.speaker_id = field(4),
                         !.num_dialog_options = field(8),
                         !.flags = field(9),
                         !.msg_id = field(11),
                         !.msg_length = field(12),
                         !.msg_label_flag = field(14),
                         !.message_label = <<>>,
                         !.dialog_options = <<>>]

\* qfg5qgm.rs:140-146 with the label read whatever msg_label_flag is.
QgmMessageLabel_Always(bf, loc) ==
    LET r == QgmLabelNew(bf, loc)
    IN  IF r.ok THEN [r.loc EXCEPT !.pc = "options", !.message_label = <<r.value>>]
        ELSE r.loc

\* qfg5qgm.rs:140-146  the optional message label: <<>> is None and
\* <<value>> is Some(label).
QgmMessageLabel(bf, loc) ==
    IF loc.msg_label_flag # 0
    THEN LET r == QgmLabelNew(bf, loc)
         IN  IF r.ok THEN [r.loc EXCEPT !.pc = "options", !.message_label = <<r.value>>]
             ELSE r.loc
    ELSE [loc EXCEPT !.pc = "options", !.message_label = <<>>]

\* qfg5qgm.rs:149-152  one iteration of `for _ in 0..num_dialog_options`.
QgmDialogOption(bf, loc) ==
    LET r == QgmLabelNew(bf, loc)
    IN  IF r.ok
        THEN [r.loc EXCEPT !.dialog_options = Append(loc.dialog_options, r.value)]
        ELSE r.loc

\* Whether 16-bit flags have the bit of the 16-bit mask set.
HasFlag(flags, mask) == (flags \div mask) % 2 = 1

\* qfg5qgm.rs:154-175  the text and its trailer; the message pushed.  A
\* String is kept as its bytes.
QgmText(bf, loc) ==
    LET text_data == ReadBytes(bf, loc.cursor, loc.msg_length)
        after == Off(loc.cursor, loc.msg_length + 4)
    IN  IF ~CanRead(bf, loc.cursor, W(loc.msg_length + 4))
        THEN [loc |-> QgmFail(loc, "io"), pushed |-> <<>>]
        ELSE IF ~HasFlag(loc.flags, FLAG_TEXT_MANGLED) /\ ~IsUtf8(text_data, 1)
        THEN [loc |-> QgmFail([loc EXCEPT !.cursor = after], "utf8"), pushed |-> <<>>]
        ELSE [loc |-> [loc EXCEPT !.pc = "message", !.cursor = after],
              pushed |-> <<[id |-> loc.id,
                            speaker_id |-> loc.speaker_id,
                            msg_id |-> loc.msg_id,
                            message_label |-> loc.message_label,
                            dialog_options |-> loc.dialog_options,
                            text |-> IF HasFlag(loc.flags, FLAG_TEXT_MANGLED)
                                     THEN Utf8(demangle_text(text_data))
                                     ELSE text_data]>>]

\* The message blocks a buffer is built from: the label flag, the option
\* count, the record (0 the message label, k the k-th option) whose
\* terminator is spoiled, the flags, the text.
MaxMessages == 2
MaxOptions == 2

\* The value of the k-th label of a buffer: twelve bytes, one of them zero
\* and one above the ASCII range.
LabelValue(k) == <<65 + k, 0, 255, 66 + k, 67, 68, 69, 70, 71, 72, 73, 74 + k>>

MkLabel(k, spoiled) == LabelValue(k) \o <<IF spoiled THEN 1 ELSE 0>>

QgmTexts == {<<>>, <<72, 105>>, <<233, 65>>, <<1, 2, 3, 4, 5>>}

MessageShapes ==
    {[label_flag |-> lf, nopts |-> no, spoil |-> sp, flags |-> fl, text |-> tx] :
        lf \in {0, 1, 258}, no \in 0..MaxOptions, sp \in -1..0,
        fl \in {0, FLAG_TEXT_MANGLED}, tx \in {<<72, 105>>}}
    \cup {[label_flag |-> 1, nopts |-> MaxOptions, spoil |-> sp, flags |-> 0,
           text |-> <<72, 105>>] : sp \in 1..MaxOptions}
    \cup {[label_flag |-> 0, nopts |-> 1, spoil |-> -1, flags |-> fl, text |-> tx] :
            fl \in {0, FLAG_TEXT_MANGLED, 65531, 65535}, tx \in QgmTexts}

PlainMessage ==
    [label_flag |-> 1, nopts |-> 1, spoil |-> -1, flags |-> 0, text |-> <<72, 105>>]

\* The bytes of the m-th message block of shape s.
MkMessage(m, s) ==
    LE16(m) \o LE16(2) \o LE16(3) \o LE16(4) \o LE16(7) \o Zeros(6)
    \o LE16(s.nopts) \o LE16(s.flags) \o LE16(0) \o LE16(100 + m)
    \o LE16(Len(s.text)) \o LE16(0) \o LE16(s.label_flag) \o LE16(0)
    \o (IF s.label_flag # 0 THEN MkLabel(10 * m, s.spoil = 0) ELSE <<>>)
    \o Concat([k \in 1..s.nopts |-> MkLabel(10 * m + k, s.spoil = k)])
    \o s.text \o Zeros(4)

\* A dialogue buffer: the header announcing `count` messages, the blocks,
\* all but the last `cut` bytes kept.
MkQgm(magic, count, shapes, cut) ==
    LET whole == LE32(magic) \o LE32(W(1)) \o LE32(count) \o LE16(0) \o LE16(415)
                 \o Concat([m \in 1..Len(shapes) |-> MkMessage(m, shapes[m])])
    IN  MkBuf(SubSeq(whole, 1, Len(whole) - cut))

\* Sequences of plain messages ending in any shape.
MessageLists ==
    {<<>>} \cup {[m \in 1..k |-> IF m < k THEN PlainMessage ELSE s] :
                    k \in 1..MaxMessages, s \in MessageShapes}

QgmBuffers ==
    {MkQgm(QgmMagic, W(Len(ss)), ss, 0) : ss \in MessageLists}
    \cup {MkQgm(QgmMagic, W(Len(ss)), ss, cut) :
            ss \in {<<PlainMessage>>}, cut \in {1, 5, 7, 19, 20, 40, 60}}
    \cup {MkQgm(QgmMagic, count, <<PlainMessage>>, 0) :
            count \in {W(0), W(2), <<65535, 65535>>}}
    \cup {MkQgm(magic, W(1), <<PlainMessage>>, 0) :
            magic \in {<<20807, 19745>>, <<20806, 19744>>, W(0)}}
    \cup {MkBuf(Zeros(k)) : k \in {0, 3}}

QgmInit ==
    /\ overflow_checks \in BOOLEAN
    /\ RleIdle /\ SpkIdle /\ MdlIdle /\ LastIdle
    /\ AnmIdle /\ CipherIdle /\ B36Idle /\ GraIdle /\ PalIdle
    /\ qgm_data \in QgmBuffers
    /\ qgm = QgmLocals
    /\ messages = <<>>

\* qfg5qgm.rs:111-120
QgmNewHeader ==
    /\ qgm.pc = "start"
    /\ qgm' = QgmHeader(qgm_data, qgm)
    /\ UNCHANGED <<qgm_data, messages, qgmRest>>

\* qfg5qgm.rs:121-138  one more iteration of `for _ in 0..num_messages`.
QgmNewMessageHeader ==
    /\ qgm.pc = "message"
    /\ W(Len(messages)) # qgm.num_messages
    /\ qgm' = QgmMessageHeader(qgm_data, qgm)
    /\ UNCHANGED <<qgm_data, messages, qgmRest>>

\* qfg5qgm.rs:140-146
QgmNewMessageLabel ==
    /\ qgm.pc = "label"
    /\ qgm' = QgmMessageLabel(qgm_data, qgm)
    /\ UNCHANGED <<qgm_data, messages, qgmRest>>

\* qfg5qgm.rs:149-152
QgmNewDialogOption ==
    /\ qgm.pc = "options"
    /\ Len(qgm.dialog_options) < qgm.num_dialog_options
    /\ qgm' = QgmDialogOption(qgm_data, qgm)
    /\ UNCHANGED <<qgm_data, messages, qgmRest>>

\* qfg5qgm.rs:154-175
QgmNewText ==
    /\ qgm.pc = "options"
    /\ Len(qgm.dialog_options) = qgm.num_dialog_options
    /\ LET r == QgmText(qgm_data, qgm)
       IN  /\ qgm' = r.loc
           /\ messages' = messages \o r.pushed
    /\ UNCHANGED <<qgm_data, qgmRest>>

\* qfg5qgm.rs:177
QgmNewReturn ==
    /\ qgm.pc = "message"
    /\ W(Len(messages)) = qgm.num_messages
    /\ qgm' = [qgm EXCEPT !.pc = "ok"]
    /\ UNCHANGED <<qgm_data, messages, qgmRest>>

QgmNext ==
    \/ QgmNewHeader
    \/ QgmNewMessageHeader
    \/ QgmNewMessageLabel
    \/ QgmNewDialogOption
    \/ QgmNewText
    \/ QgmNewReturn

SpecQgm == QgmInit /\ [][QgmNext]_vars

(***************************************************************************)
(* QgmDecoder::new: claims                                                 *)
(***************************************************************************)

QgmFinished == qgm.pc \in {"ok", "err"}

\* The labels of the decoded messages in the order they were read.
RECURSIVE LabelsOf(_)
LabelsOf(ms) ==
    IF ms = <<>> THEN <<>>
    ELSE Head(ms).message_label \o Head(ms).dialog_options \o LabelsOf(Tail(ms))

\* The labels held so far: those of the pushed messages and of the message
\* being read.
LabelsHeld ==
    LabelsOf(messages)
    \o (IF qgm.pc \in {"options"} THEN qgm.message_label \o qgm.dialog_options ELSE <<>>)

\* The terminator of the record read at `at`.
Terminator(at) == ByteAt(qgm_data, Off(at, LabelRecordSize - 1))

\* C13, the record size: every label record read takes 13 bytes of the
\* buffer, all of them inside it.
C13_Size ==
    qgm.pc # "idle" =>
        \A i \in 1..Len(qgm.labels_read) :
            /\ qgm.labels_read[i].end = Off(qgm.labels_read[i].at, 13)
            /\ WLe(qgm.labels_read[i].end, qgm_data.len)

\* C13, the label: while no record with a nonzero 13th byte was read, the
\* labels held are, in order, the first 12 bytes of the records read.
C13_Value ==
    qgm.pc \in {"message", "options", "ok"} =>
        /\ Len(LabelsHeld) = Len(qgm.labels_read)
        /\ \A i \in 1..Len(qgm.labels_read) :
            /\ Terminator(qgm.labels_read[i].at) = 0
            /\ LabelsHeld[i] = ReadBytes(qgm_data, qgm.labels_read[i].at, 12)

\* C13, the failure: a record with a nonzero 13th byte ends the decode at
\* once with the label error, and no later record is read.
C13_Rejects ==
    qgm.pc # "idle" =>
        \A i \in 1..Len(qgm.labels_read) :
            Terminator(qgm.labels_read[i].at) # 0 =>
                /\ qgm.pc = "err" /\ qgm.err = "label"
                /\ i = Len(qgm.labels_read)

\* C13: every label record is 13 bytes; a nonzero 13th byte fails the whole
\* decode with an error, otherwise the label is exactly the first 12 bytes.
C13_Labels == C13_Size /\ C13_Value /\ C13_Rejects

\* C13 happens: a decode succeeded with a message that has a label and
\* MaxOptions option labels.
C13_Witness ==
    /\ qgm.pc = "ok"
    /\ \E m \in 1..Len(messages) :
        /\ Len(messages[m].message_label) = 1
        /\ Len(messages[m].dialog_options) = MaxOptions

\* C13's failure happens: a decode that had read a good label failed on a
\* spoiled one.
C13_WitnessReject ==
    /\ qgm.pc = "err" /\ qgm.err = "label"
    /\ Len(qgm.labels_read) > 1

(***************************************************************************)
(* encode_digit_base_36, encode_base_36, QgmLabel::encode                  *)
(***************************************************************************)

\* An Option is a sequence of at most one element: <<>> is None.
\* qfg5qgm.rs:41-49  the character of a digit.
encode_digit_base_36_NoGap(v) ==
    IF v < 10 THEN <<48 + v>> ELSE IF v < 36 THEN <<65 + v>> ELSE <<>>
encode_digit_base_36(v) ==
    IF v < 10 THEN <<48 + v>> ELSE IF v < 36 THEN <<65 + (v - 10)>> ELSE <<>>

\* qfg5qgm.rs:51  36_u16.pow(k): the 16 bits kept, and whether the power
\* left the 16 bits.
RECURSIVE Pow36(_)
Pow36(k) ==
    IF k = 0 THEN [v |-> 1, overflow |-> FALSE]
    ELSE LET p == Pow36(k - 1)
         IN  [v |-> (p.v * 36) % Limb,
              overflow |-> p.overflow \/ p.v * 36 >= Limb]

\* qfg5qgm.rs:56-59  the digits of v, the last one first filled.
RECURSIVE Digits36(_, _)
Digits36(v, k) ==
    IF k = 0 THEN <<>>
    ELSE Digits36(v \div 36, k - 1) \o encode_digit_base_36(v % 36)

\* qfg5qgm.rs:50-61  encode_base_36: "none" and "some" are the Option
\* returned, "panic" the abort of the arithmetic check of a build that has
\* it.
encode_base_36(v, num_digits, checks) ==
    LET p == Pow36(num_digits)
    IN  IF p.overflow /\ checks THEN [kind |-> "panic", chars |-> <<>>]
        ELSE IF v >= p.v THEN [kind |-> "none", chars |-> <<>>]
        ELSE [kind |-> "some", chars |-> Digits36(v, num_digits)]

\* qfg5qgm.rs:74-81  QgmLabel::encode: the String, or the panic of the
\* first unwrap of a None.
LabelWidths == <<3, 2, 2, 2, 1>>

QgmLabelEncode(file_id, id, checks) ==
    LET parts == [k \in 1..5 |->
                    encode_base_36(IF k = 1 THEN file_id ELSE id[k - 1],
                                   LabelWidths[k], checks)]
    IN  IF \E k \in 1..5 : parts[k].kind # "some"
        THEN [kind |-> "panic", chars |-> <<>>]
        ELSE [kind |-> "some",
              chars |-> parts[1].chars \o parts[2].chars \o parts[3].chars
                        \o <<46>> \o parts[4].chars \o parts[5].chars]

MaxDigits == 5

B36Values ==
    {0, 9, 10, 35, 36, 415, 1295, 1296, 41215, 41216, 46655, 46656, 50000, 65535}

B36Ids ==
    {<<0, 0, 0, 0>>, <<36, 415, 1295, 35>>, <<1296, 0, 0, 0>>,
     <<0, 1296, 0, 0>>, <<0, 0, 65535, 0>>, <<0, 0, 0, 36>>}

NoResult == [kind |-> "", chars |-> <<>>]

B36Init ==
    /\ overflow_checks \in BOOLEAN
    /\ RleIdle /\ SpkIdle /\ MdlIdle /\ LastIdle
    /\ AnmIdle /\ QgmIdle /\ CipherIdle /\ GraIdle /\ PalIdle
    /\ \E v \in B36Values, k \in 0..MaxDigits, id \in B36Ids :
        b36 = [pc |-> "digit", v |-> v, num_digits |-> k, id |-> id,
               digit |-> <<>>, encoded |-> NoResult, label |-> NoResult]

\* qfg5qgm.rs:41-49  a call of encode_digit_base_36(v).
B36EncodeDigit ==
    /\ b36.pc = "digit"
    /\ b36' = [b36 EXCEPT !.pc = "encode", !.digit = encode_digit_base_36(b36.v)]
    /\ UNCHANGED b36Rest

\* qfg5qgm.rs:50-61  a call of encode_base_36(v, num_digits).
B36Encode ==
    /\ b36.pc = "encode"
    /\ b36' = [b36 EXCEPT !.pc = "label",
                          !.encoded = encode_base_36(b36.v, b36.num_digits, overflow_checks)]
    /\ UNCHANGED b36Rest

\* qfg5qgm.rs:74-81  a call of QgmLabel::encode with v the file id.
B36EncodeLabel ==
    /\ b36.pc = "label"
    /\ b36' = [b36 EXCEPT !.pc = "done",
                          !.label = QgmLabelEncode(b36.v, b36.id, overflow_checks)]
    /\ UNCHANGED b36Rest

B36Next == B36EncodeDigit \/ B36Encode \/ B36EncodeLabel

SpecBase36 == B36Init /\ [][B36Next]_vars

(***************************************************************************)
(* Base 36: claims                                                         *)
(***************************************************************************)

\* The digit a character of 0-9A-Z stands for, -1 for any other character.
decode_digit(ch) ==
    IF ch \in 48..57 THEN ch - 48 ELSE IF ch \in 65..90 THEN ch - 55 ELSE -1

\* The base-36 value of a string of digits.
RECURSIVE Value36(_)
Value36(chars) ==
    IF chars = <<>> THEN 0
    ELSE 36 * Value36(SubSeq(chars, 1, Len(chars) - 1)) + decode_digit(chars[Len(chars)])

\* Whether v < 36^k, for a 16-bit v.
Fits36(v, k) ==
    \/ k >= 4
    \/ k = 3 /\ v < 46656
    \/ k = 2 /\ v < 1296
    \/ k = 1 /\ v < 36
    \/ k = 0 /\ v < 1

B36Called(pcs) == b36.pc \in pcs

\* C15: a v that fits n digits is encoded as n characters of 0-9A-Z of
\* value v, whatever n.
C15_Fitting ==
    (B36Called({"label", "done"}) /\ Fits36(b36.v, b36.num_digits)) =>
        /\ b36.encoded.kind = "some"
        /\ Len(b36.encoded.chars) = b36.num_digits
        /\ \A i \in 1..Len(b36.encoded.chars) : decode_digit(b36.encoded.chars[i]) >= 0
        /\ Value36(b36.encoded.chars) = b36.v

\* C15: a v that does not fit n digits gives None, and only such a v does.
C15_NotFitting ==
    B36Called({"label", "done"}) =>
        (b36.encoded.kind = "none" <=> ~Fits36(b36.v, b36.num_digits))

\* C15: encode_base_36(v, n) is the n-digit base-36 string of v when
\* v < 36^n and None exactly when v >= 36^n, for every n.
C15_EncodeBase36 == C15_Fitting /\ C15_NotFitting

\* C15 restricted to the widths where 36^n fits 16 bits.
C15_UpTo3Digits ==
    b36.num_digits <= 3 => C15_EncodeBase36

\* C16: encode_digit_base_36 maps 0..9 to '0'..'9' and 10..35 to 'A'..'Z',
\* so that decode_digit inverts it, no two digits share a character, and
\* every v of 36 or more gives None.
C16_Digit ==
    B36Called({"encode", "label", "done"}) =>
        /\ b36.v < 10 => b36.digit = <<48 + b36.v>>
        /\ b36.v \in 10..35 => b36.digit = <<65 + b36.v - 10>>
        /\ b36.v < 36 =>
            /\ decode_digit(b36.digit[1]) = b36.v
            /\ \A w \in 0..35 : encode_digit_base_36(w) = b36.digit => w = b36.v
        /\ b36.v >= 36 => b36.digit = <<>>

\* C16 happens: a letter digit was encoded.
C16_Witness == b36.pc = "done" /\ b36.v = 35 /\ b36.digit = <<90>>

\* Whether every value of the label fits its width.
LabelFits ==
    /\ Fits36(b36.v, 3)
    /\ Fits36(b36.id[1], 2) /\ Fits36(b36.id[2], 2) /\ Fits36(b36.id[3], 2)
    /\ Fits36(b36.id[4], 1)

\* C17, the string: when every value fits, the label is the 11 characters
\* of file_id in 3 digits, id[0] and id[1] in 2, a dot, id[2] in 2, id[3]
\* in 1.
C17_String ==
    (b36.pc = "done" /\ LabelFits) =>
        /\ b36.label.kind = "some"
        /\ Len(b36.label.chars) = 11
        /\ Value36(SubSeq(b36.label.chars, 1, 3)) = b36.v
        /\ Value36(SubSeq(b36.label.chars, 4, 5)) = b36.id[1]
        /\ Value36(SubSeq(b36.label.chars, 6, 7)) = b36.id[2]
        /\ b36.label.chars[8] = 46
        /\ Value36(SubSeq(b36.label.chars, 9, 10)) = b36.id[3]
        /\ Value36(SubSeq(b36.label.chars, 11, 11)) = b36.id[4]
        /\ \A i \in (1..11) \ {8} : decode_digit(b36.label.chars[i]) >= 0

\* C17, the failure: when some value does not fit, the encoding is a
\* failure returned to the caller.
C17_Reported ==
    (b36.pc = "done" /\ ~LabelFits) => b36.label.kind = "err"

\* C17: QgmLabel::encode gives the 11-character label, and a reported
\* failure when a value does not fit its width.
C17_LabelEncode == C17_String /\ C17_Reported

(***************************************************************************)
(* decode_rgb555_palette                                                   *)
(***************************************************************************)

\* qfg5gra.rs:31-32  the entries of a palette.
PaletteEntries == 256
\* qfg5gra.rs:34-36  the mask of a 5-bit channel.
ChannelMask == 31
\* The bits of the significand of an f32.
F32Digits == 24

\* num / den rounded to an integer, a tie to the even one (the rounding of
\* the f32 operations), or toward zero.
RoundNearestEven_TowardZero(num, den) == num \div den
RoundNearestEven(num, den) ==
    LET q == num \div den
        twice == 2 * (num % den)
    IN  IF twice > den \/ (twice = den /\ q % 2 = 1) THEN q + 1 ELSE q

\* The least s with m < 2^(F32Digits + s).
RECURSIVE Excess(_)
Excess(m) == IF m < Pow2(F32Digits) THEN 0 ELSE 1 + Excess(m \div 2)

\* The f32 nearest m * 2^e, as [m, e], for a positive integer m: the
\* significand is cut at F32Digits bits.
F32Round(m, e) ==
    LET s == Excess(m)
    IN  [m |-> RoundNearestEven(m, Pow2(s)), e |-> e + s]

\* The f32 quotient of two small positive integers, as [m, e].
F32Div(x, y) ==
    LET k == CHOOSE k \in 0..F32Digits :
                /\ (x * Pow2(k)) \div y >= Pow2(F32Digits - 1)
                /\ (x * Pow2(k)) \div y < Pow2(F32Digits)
    IN  [m |-> RoundNearestEven(x * Pow2(k), y), e |-> -k]

\* The f32 product of an f32 and a small integer (exact as an f32).
F32MulInt(x, c) ==
    IF c = 0 THEN [m |-> 0, e |-> 0] ELSE F32Round(x.m * c, x.e)

\* `as u8` of a non-negative f32: truncated, and saturated at 255.
F32AsU8(x) ==
    LET whole == IF x.e >= 0 THEN x.m * Pow2(x.e) ELSE x.m \div Pow2(-x.e)
    IN  IF whole > 255 THEN 255 ELSE whole

\* qfg5gra.rs:37-39  ((255.0 / 31.0) * c as f32) as u8
Expand(c) == F32AsU8(F32MulInt(F32Div(255, 31), c))

\* qfg5gra.rs:33-40  the palette entry of the n-th packed colour.
PaletteEntry(rgb555, i) ==
    LET v == rgb555[2 * i + 1] + 256 * rgb555[2 * i + 2]
        r == (v \div 1024) % (ChannelMask + 1)
        g == (v \div 32) % (ChannelMask + 1)
        b == v % (ChannelMask + 1)
    IN  <<Expand(r), Expand(g), Expand(b)>>

\* The packed palettes decoded: between them the entries take every value
\* of every channel, with bit 15 clear and set.
NumPalettes == 5

PackedColour(s, i) ==
    CASE s = 1 -> i
      [] s = 2 -> (i * 32) % Limb
      [] s = 3 -> (i * 256 + (255 - i)) % Limb
      [] s = 4 -> IF i % 2 = 0 THEN 0 ELSE IF i % 4 = 1 THEN 32767 ELSE 65535
      [] OTHER -> (Limb - 1 - i * (129 + s)) % Limb

Rgb555(s) ==
    [j \in 1..(2 * PaletteEntries) |->
        LE16(PackedColour(s, (j - 1) \div 2))[((j - 1) % 2) + 1]]

PalInit ==
    /\ overflow_checks \in BOOLEAN
    /\ RleIdle /\ SpkIdle /\ MdlIdle /\ LastIdle
    /\ AnmIdle /\ QgmIdle /\ CipherIdle /\ B36Idle /\ GraIdle
    /\ \E s \in 1..NumPalettes :
        pal = [pc |-> "loop", rgb555 |-> Rgb555(s), n |-> 0,
               result |-> [k \in 1..PaletteEntries |-> <<0, 0, 0>>]]

\* qfg5gra.rs:32-41  one iteration of `for n in 0..256`.
PalEntry ==
    /\ pal.pc = "loop"
    /\ pal.n < PaletteEntries
    /\ pal' = [pal EXCEPT !.result[pal.n + 1] = PaletteEntry(pal.rgb555, pal.n),
                          !.n = pal.n + 1]
    /\ UNCHANGED palRest

\* qfg5gra.rs:42
PalReturn ==
    /\ pal.pc = "loop"
    /\ pal.n = PaletteEntries
    /\ pal' = [pal EXCEPT !.pc = "done"]
    /\ UNCHANGED palRest

PalNext == PalEntry \/ PalReturn

SpecPalette == PalInit /\ [][PalNext]_vars

(***************************************************************************)
(* decode_rgb555_palette: claims                                           *)
(***************************************************************************)

\* The packed 16-bit value of entry i (from 0) of the input.
PackedAt(i) == pal.rgb555[2 * i + 1] + 256 * pal.rgb555[2 * i + 2]

\* floor(255 * c / 31)
Floor255(c) == (255 * c) \div 31

\* C19: every entry written is (floor(255*r/31), floor(255*g/31),
\* floor(255*b/31)) of the r, g, b bits of its packed value, bit 15
\* ignored; 0x0000 gives (0,0,0), 0x7FFF gives (255,255,255), and every
\* channel is in [0,255].
C19_Palette ==
    pal.pc \in {"loop", "done"} =>
        \A i \in 0..(pal.n - 1) :
            LET v == PackedAt(i)
                entry == pal.result[i + 1]
            IN  /\ entry = <<Floor255((v % 32768) \div 1024),
                             Floor255((v % 1024) \div 32),
                             Floor255(v % 32)>>
                /\ v = 0 => entry = <<0, 0, 0>>
                /\ v = 32767 => entry = <<255, 255, 255>>
                /\ \A c \in 1..3 : entry[c] \in 0..255

\* C19 happens: a whole palette was expanded, with the entries 0x7FFF and
\* 0xFFFF in it.
C19_Witness ==
    /\ pal.pc = "done"
    /\ \E i, j \in 0..(PaletteEntries - 1) :
        /\ PackedAt(i) = 32767 /\ pal.result[i + 1] = <<255, 255, 255>>
        /\ PackedAt(j) = 65535 /\ pal.result[j + 1] = <<255, 255, 255>>

(***************************************************************************)
(* GraDecoder::new                                                         *)
(***************************************************************************)

\* qfg5gra.rs:51  the bytes of the packed palette.
Rgb555Size == 512
\* qfg5gra.rs:49-52  the offset of the table of collection offsets.
OffsetsAddr == 520
\* qfg5gra.rs:65-71  the bytes of the seven u32 of a collection header.
CollectionHeaderSize == 28
\* qfg5gra.rs:85,88  the colour modes.
ModeRaw == 0
ModeRle == 2

GraFail(loc, kind) == [loc EXCEPT !.pc = "err", !.err = kind]

GraPanic(loc) == [loc EXCEPT !.pc = "panic"]

GraLocals ==
    [pc |-> "start", err |-> "", cursor |-> W(0), colour_mode |-> W(0),
     num_collections |-> W(0), palette |-> <<>>, sprite_collection_offsets |-> <<>>,
     x_position |-> W(0), y_position |-> W(0), width |-> W(0), height |-> W(0),
     num_sprites |-> W(0), frame_delay |-> W(0), frame_offsets |-> <<>>,
     sprites |-> <<>>]

\* decode.rs:7-33  decode_rle(data, output) run to its end from index nn:
\* the output, and whether an index panicked.
RECURSIVE DecodeRleFrom(_, _, _, _)
DecodeRleFrom(d, out, oi, nn) ==
    IF nn >= Len(d) THEN [out |-> out, panic |-> FALSE]
    ELSE LET r == RleIteration(d, out, oi, nn)
         IN  IF r.panic THEN [out |-> r.out, panic |-> TRUE]
             ELSE DecodeRleFrom(d, r.out, r.oi, r.n)

\* qfg5gra.rs:47-53  the colour mode, the collection count and the palette.
GraHeader(bf, loc) ==
    IF ~CanRead(bf, W(0), W(OffsetsAddr)) THEN GraFail(loc, "io")
    ELSE LET rgb555 == ReadBytes(bf, W(8), Rgb555Size)
         IN  [loc EXCEPT !.pc = "offsets",
                         !.cursor = W(OffsetsAddr),
                         !.colour_mode = ReadU32(bf, W(0)),
                         !.num_collections = ReadU32(bf, W(4)),
                         !.palette = [k \in 1..PaletteEntries |->
                                        PaletteEntry(rgb555, k - 1)]]

\* qfg5gra.rs:56-58  one iteration of the loop reading the offsets.
GraOffset(bf, loc) ==
    IF ~CanRead(bf, loc.cursor, W(4)) THEN GraFail(loc, "io")
    ELSE [loc EXCEPT !.cursor = Off(loc.cursor, 4),
                     !.sprite_collection_offsets =
                         Append(loc.sprite_collection_offsets, ReadU32(bf, loc.cursor))]

\* qfg5gra.rs:63-76  the seek to a collection, its header and its table of
\* frame offsets.
GraCollection(bf, loc, offset) ==
    LET table == Off(offset, CollectionHeaderSize)
        num_sprites == ReadU32(bf, Off(offset, 16))
    IN  IF ~CanRead(bf, offset, W(CollectionHeaderSize)) THEN GraFail(loc, "io")
        ELSE IF ~CanRead(bf, table, WMul(4, num_sprites)) THEN GraFail(loc, "io")
        ELSE [loc EXCEPT !.pc = "sprites",
                         !.cursor = WAdd(table, WMul(4, num_sprites)),
                         !.x_position = ReadU32(bf, offset),
                         !.y_position = ReadU32(bf, Off(offset, 4)),
                         !.width = ReadU32(bf, Off(offset, 8)),
                         !.height = ReadU32(bf, Off(offset, 12)),
                         !.num_sprites = num_sprites,
                         !.frame_delay = ReadU32(bf, Off(offset, 20)),
                         !.frame_offsets = [k \in 1..WInt(num_sprites) |->
                                              ReadU32(bf, Off(table, 4 * (k - 1)))],
                         !.sprites = <<>>]

\* qfg5gra.rs:80-94  one sprite: the seek to its frame, the pixel buffer and
\* its filling.  The pixel buffers of the buffers decoded here are short.
GraSprite(bf, loc, offset, checks) ==
    LET pos == U32Result(WAdd(offset, loc.frame_offsets[Len(loc.sprites) + 1]), checks)
        size == U32Mul(loc.width, loc.height, checks)
        avail == WSub(bf.len, pos.v)
        at == [loc EXCEPT !.cursor = pos.v]
    IN  IF pos.panic THEN GraPanic(loc)
        ELSE IF WLt(bf.len, pos.v) THEN GraPanic(at)
        ELSE IF size.panic THEN GraPanic(at)
        ELSE IF loc.colour_mode = W(ModeRaw)
        THEN IF WLt(avail, size.v) THEN GraPanic(at)
             ELSE [at EXCEPT !.sprites =
                      Append(loc.sprites, [pixels |-> ReadBytes(bf, pos.v, WInt(size.v))])]
        ELSE IF loc.colour_mode = W(ModeRle)
        THEN LET r == DecodeRleFrom(ReadBytes(bf, pos.v, WInt(avail)),
                                    Zeros(WInt(size.v)), 0, 0)
             IN  IF r.panic THEN GraPanic(at)
                 ELSE [at EXCEPT !.sprites = Append(loc.sprites, [pixels |-> r.out])]
        ELSE GraPanic(at)

\* qfg5gra.rs:97-102  the collection pushed.
GraSpriteCollection(loc) ==
    [x_position |-> loc.x_position, y_position |-> loc.y_position,
     width |-> loc.width, height |-> loc.height,
     frame_delay |-> loc.frame_delay, sprites |-> loc.sprites]

MaxCollections == 2
MaxSprites == 2

\* The frame k of a collection of w * h pixels: in the RLE mode a run of
\* w * h copies of one byte, else w * h raw bytes.
FrameData(mode, w, h, k) ==
    IF mode = ModeRle
    THEN IF w * h = 0 THEN <<>> ELSE <<w * h, 10 * k>>
    ELSE [i \in 1..(w * h) |-> 10 * k + i]

\* The shapes of a collection: its size, its frame count and the field
\* that is not what a writer of the format would store.
CollectionShapes ==
    {[w |-> d[1], h |-> d[2], ns |-> ns, tamper |-> "none"] :
        d \in {<<2, 2>>, <<1, 3>>, <<0, 5>>}, ns \in 0..MaxSprites}
    \cup {[w |-> 2, h |-> 2, ns |-> 1, tamper |-> t] :
            t \in {"frame_wrap", "frame_far", "frame_end", "dims_wrap",
                   "collection_far", "sprites_many"}}

PlainCollection == [w |-> 2, h |-> 2, ns |-> 1, tamper |-> "none"]

\* The bytes of frame k of a collection.
FrameOf(mode, s, k) == FrameData(mode, s.w, s.h, k)

\* The offset of frame k from the collection's base.
RECURSIVE FrameStart(_, _, _)
FrameStart(mode, s, k) ==
    IF k = 1 THEN CollectionHeaderSize + 4 * s.ns
    ELSE FrameStart(mode, s, k - 1) + Len(FrameOf(mode, s, k - 1))

CollectionLen(mode, s) == FrameStart(mode, s, s.ns + 1)

\* The frame offset stored for frame k.
StoredFrameOffset(mode, s, k) ==
    CASE s.tamper = "frame_wrap" -> <<65535, 65532>>
      [] s.tamper = "frame_far" -> W(60000)
      [] s.tamper = "frame_end" -> W(FrameStart(mode, s, k) + 2)
      [] OTHER -> W(FrameStart(mode, s, k))

\* The bytes of a collection.
MkCollection(mode, s) ==
    LE32(W(3)) \o LE32(W(4))
    \o LE32(IF s.tamper = "dims_wrap" THEN <<1, 0>> ELSE W(s.w))
    \o LE32(IF s.tamper = "dims_wrap" THEN <<1, 0>> ELSE W(s.h))
    \o LE32(IF s.tamper = "sprites_many" THEN <<65535, 65535>> ELSE W(s.ns))
    \o LE32(W(5)) \o LE32(W(0))
    \o Concat([k \in 1..s.ns |-> LE32(StoredFrameOffset(mode, s, k))])
    \o Concat([k \in 1..s.ns |-> FrameOf(mode, s, k)])

\* The offset of collection c of the shapes ss in a buffer of `count`
\* stored offsets.
RECURSIVE CollectionStart(_, _, _, _)
CollectionStart(mode, ss, count, c) ==
    IF c = 1 THEN OffsetsAddr + 4 * count
    ELSE CollectionStart(mode, ss, count, c - 1) + CollectionLen(mode, ss[c - 1])

StoredCollectionOffset(mode, ss, count, c) ==
    IF ss[c].tamper = "collection_far" THEN W(60000)
    ELSE W(CollectionStart(mode, ss, count, c))

\* A sprite buffer: the colour mode, the count field, a palette whose first
\* entry is white, the offsets and the collections of the shapes, all but
\* the last `cut` bytes kept.
MkGra(mode, count, ss, cut) ==
    LET body == Concat([c \in 1..Len(ss) |->
                          LE32(StoredCollectionOffset(mode, ss, Len(ss), c))])
                \o Concat([c \in 1..Len(ss) |-> MkCollection(mode, ss[c])])
    IN  [len |-> W(OffsetsAddr + Len(body) - cut),
         segs |-> <<[at |-> W(0), bytes |-> LE32(W(mode)) \o LE32(count) \o <<255, 127>>],
                    [at |-> W(OffsetsAddr), bytes |-> body]>>]

GraModes == {ModeRaw, 1, ModeRle, 3}

\* Plain collections ending in any shape.
CollectionLists ==
    {<<>>} \cup {[c \in 1..k |-> IF c < k THEN PlainCollection ELSE s] :
                    k \in 1..MaxCollections, s \in CollectionShapes}

GraBuffers ==
    {MkGra(mode, W(Len(ss)), ss, 0) : mode \in GraModes, ss \in CollectionLists}
    \cup {MkGra(mode, W(1), <<PlainCollection>>, cut) :
            mode \in GraModes, cut \in {1, 4, 8, 30, 36}}
    \cup {MkGra(mode, count, <<PlainCollection>>, 0) :
            mode \in GraModes, count \in {W(0), W(2), <<65535, 65535>>}}
    \cup {[len |-> W(k), segs |-> <<>>] : k \in {0, 7, 519}}

GraInit ==
    /\ overflow_checks \in BOOLEAN
    /\ RleIdle /\ SpkIdle /\ MdlIdle /\ LastIdle
    /\ AnmIdle /\ QgmIdle /\ CipherIdle /\ B36Idle /\ PalIdle
    /\ gra_data \in GraBuffers
    /\ gra = GraLocals
    /\ sprite_collections = <<>>

\* The pc after the offsets read so far: the collections once all are read.
AfterOffsets(loc) ==
    IF W(Len(loc.sprite_collection_offsets)) = loc.num_collections
    THEN [loc EXCEPT !.pc = "collections"] ELSE loc

\* qfg5gra.rs:47-55
GraNewHeader ==
    /\ gra.pc = "start"
    /\ LET r == GraHeader(gra_data, gra)
       IN  gra' = IF r.pc = "err" THEN r ELSE AfterOffsets(r)
    /\ UNCHANGED <<gra_data, sprite_collections, graRest>>

\* qfg5gra.rs:56-58
GraNewOffset ==
    /\ gra.pc = "offsets"
    /\ LET r == GraOffset(gra_data, gra)
       IN  gra' = IF r.pc = "err" THEN r ELSE AfterOffsets(r)
    /\ UNCHANGED <<gra_data, sprite_collections, graRest>>

\* The offset of the collection being decoded.
CurrentOffset == gra.sprite_collection_offsets[Len(sprite_collections) + 1]

\* qfg5gra.rs:62-78
GraNewCollection ==
    /\ gra.pc = "collections"
    /\ Len(sprite_collections) < Len(gra.sprite_collection_offsets)
    /\ gra' = GraCollection(gra_data, gra, CurrentOffset)
    /\ UNCHANGED <<gra_data, sprite_collections, graRest>>

\* qfg5gra.rs:79-95
GraNewSprite ==
    /\ gra.pc = "sprites"
    /\ W(Len(gra.sprites)) # gra.num_sprites
    /\ gra' = GraSprite(gra_data, gra, CurrentOffset, overflow_checks)
    /\ UNCHANGED <<gra_data, sprite_collections, graRest>>

\* qfg5gra.rs:97-103
GraNewPush ==
    /\ gra.pc = "sprites"
    /\ W(Len(gra.sprites)) = gra.num_sprites
    /\ sprite_collections' = Append(sprite_collections, GraSpriteCollection(gra))
    /\ gra' = [gra EXCEPT !.pc = "collections"]
    /\ UNCHANGED <<gra_data, graRest>>

\* qfg5gra.rs:104
GraNewReturn ==
    /\ gra.pc = "collections"
    /\ Len(sprite_collections) = Len(gra.sprite_collection_offsets)
    /\ gra' = [gra EXCEPT !.pc = "ok"]
    /\ UNCHANGED <<gra_data, sprite_collections, graRest>>

GraNext ==
    \/ GraNewHeader
    \/ GraNewOffset
    \/ GraNewCollection
    \/ GraNewSprite
    \/ GraNewPush
    \/ GraNewReturn

SpecGra == GraInit /\ [][GraNext]_vars

(***************************************************************************)
(* GraDecoder::new: claims                                                 *)
(***************************************************************************)

GraFinished == gra.pc \in {"ok", "err", "panic"}

\* The colour mode field of the buffer, when the buffer has one.
ModeField == ReadU32(gra_data, W(0))

GraHasHeader == CanRead(gra_data, W(0), W(OffsetsAddr))

\* The fields of collection c (from 1) and of its frame k (from 1), read
\* from the buffer.
BaseOf(c) == ReadU32(gra_data, W(OffsetsAddr + 4 * (c - 1)))

FrameOffsetOf(c, k) ==
    ReadU32(gra_data, WAdd(BaseOf(c), W(CollectionHeaderSize + 4 * (k - 1))))

\* Whether the bytes px lie somewhere in the buffer.
LiesInBuffer(px) ==
    \E p \in 0..WInt(gra_data.len) :
        /\ p + Len(px) <= WInt(gra_data.len)
        /\ px = ReadBytes(gra_data, W(p), Len(px))

\* C18, the other modes: a buffer whose colour mode is neither 0 nor 2 ends
\* in the unsupported-mode failure, whatever its collections and frames.
C18_Unsupported ==
    (GraFinished /\ GraHasHeader /\ ModeField \notin {W(ModeRaw), W(ModeRle)}) =>
        gra.pc = "err" /\ gra.err = "mode"

\* C18, the two modes: a sprite decoded in mode 0 is width * height bytes
\* of the buffer, a sprite decoded in mode 2 has width * height pixels.
C18_Decoded ==
    gra.pc = "ok" =>
        \A c \in 1..Len(sprite_collections) :
            \A k \in 1..Len(sprite_collections[c].sprites) :
                LET col == sprite_collections[c]
                    px == col.sprites[k].pixels
                IN  /\ W(Len(px)) = Product(col.width, col.height)
                    /\ ModeField = W(ModeRaw) => LiesInBuffer(px)

\* C18: a colour mode other than 0 and 2 is an unsupported-mode failure
\* returned to the caller; mode 0 copies width * height raw bytes per frame
\* and mode 2 decodes into a width * height buffer.
C18_ColourMode == C18_Unsupported /\ C18_Decoded

\* C20, the placement: in mode 0 the pixels of frame k of collection c are
\* the bytes at collection offset + frame offset, inside the buffer.
C20_Placement ==
    (gra.pc = "ok" /\ ModeField = W(ModeRaw)) =>
        \A c \in 1..Len(sprite_collections) :
            \A k \in 1..Len(sprite_collections[c].sprites) :
                LET px == sprite_collections[c].sprites[k].pixels
                    at == WAdd(BaseOf(c), FrameOffsetOf(c, k))
                IN  /\ CanRead(gra_data, at, W(Len(px)))
                    /\ px = ReadBytes(gra_data, at, Len(px))

\* C20, the counts: the decode yields one collection per stored offset and
\* one sprite per frame, so one collection of one sprite for a buffer of 1
\* collection and 1 frame.
C20_Counts ==
    gra.pc = "ok" =>
        /\ W(Len(sprite_collections)) = ReadU32(gra_data, W(4))
        /\ \A c \in 1..Len(sprite_collections) :
            W(Len(sprite_collections[c].sprites))
                = ReadU32(gra_data, WAdd(BaseOf(c), W(16)))

\* C20, the length: every sprite has width * height pixels.
C20_Length ==
    gra.pc = "ok" =>
        \A c \in 1..Len(sprite_collections) :
            \A k \in 1..Len(sprite_collections[c].sprites) :
                W(Len(sprite_collections[c].sprites[k].pixels))
                    = Product(sprite_collections[c].width, sprite_collections[c].height)

\* C20: frame n of a collection is decoded from collection offset + frame
\* offset; a buffer of 1 collection, 1 frame and mode 0 gives one
\* collection of one sprite of the raw bytes there; every sprite has
\* width * height pixels.
C20_FramePlacement == C20_Placement /\ C20_Counts /\ C20_Length

(***************************************************************************)
(* NodDecoder::new                                                         *)
(***************************************************************************)

\* qfg5nod.rs:16
NOD_PALETTE_OFFSET == 168
\* qfg5nod.rs:20  the index of the version byte.
NodVersionIndex == 6
\* qfg5nod.rs:23  the bytes from one palette entry to the next.
NodEntryStride == 4

\* qfg5nod.rs:23  the offset of entry i (from 0).
NodEntryOffset_Packed(i) == NOD_PALETTE_OFFSET + i * 3
NodEntryOffset(i) == NOD_PALETTE_OFFSET + i * NodEntryStride

\* `nod_data[i]` is in range.
NodInRange(bf, i) == WLt(W(i), bf.len)

\* qfg5nod.rs:22-28  one iteration of `for n in 0..256_usize`: the locals
\* after it, a panic when an index is out of range.
NodIteration(loc) ==
    LET offset == NodEntryOffset(loc.n)
    IN  IF ~NodInRange(loc.data, offset + 2)
        THEN [loc EXCEPT !.pc = "panic"]
        ELSE [loc EXCEPT !.palette[loc.n + 1] =
                            <<ByteAt(loc.data, W(offset)),
                              ByteAt(loc.data, W(offset + 1)),
                              ByteAt(loc.data, W(offset + 2))>>,
                         !.n = loc.n + 1]

\* The palette files decoded: a version byte, a table whose bytes all
\* differ from their neighbours, and the lengths around each index read.
NumNodTables == 3

NodTable(s) == [j \in 1..(PaletteEntries * NodEntryStride) |-> (7 * j + 50 * s) % 256]

NodLengths == {0, 6, 7, 168, 170, 936, 1190, 1191, 1192}

NodFiles ==
    {[len |-> W(k),
      segs |-> <<[at |-> W(0), bytes |-> <<1, 2, 3, 4, 5, 6, 4 * s>>],
                 [at |-> W(NOD_PALETTE_OFFSET), bytes |-> NodTable(s)]>>] :
        k \in NodLengths, s \in 1..NumNodTables}

NodInit ==
    /\ overflow_checks \in BOOLEAN
    /\ FirstIdle /\ ImgIdle /\ RgdIdle /\ QgfIdle /\ ViewerIdle
    /\ \E bf \in NodFiles :
        nod = [pc |-> "start", data |-> bf, version |-> 0, n |-> 0,
               palette |-> [k \in 1..PaletteEntries |-> <<0, 0, 0>>]]

\* qfg5nod.rs:20-21
NodNewVersion ==
    /\ nod.pc = "start"
    /\ nod' = IF NodInRange(nod.data, NodVersionIndex)
              THEN [nod EXCEPT !.pc = "loop",
                               !.version = ByteAt(nod.data, W(NodVersionIndex))]
              ELSE [nod EXCEPT !.pc = "panic"]
    /\ UNCHANGED nodRest

\* qfg5nod.rs:22-28
NodNewEntry ==
    /\ nod.pc = "loop"
    /\ nod.n < PaletteEntries
    /\ nod' = NodIteration(nod)
    /\ UNCHANGED nodRest

\* qfg5nod.rs:29
NodNewReturn ==
    /\ nod.pc = "loop"
    /\ nod.n = PaletteEntries
    /\ nod' = [nod EXCEPT !.pc = "ok"]
    /\ UNCHANGED nodRest

NodNext == NodNewVersion \/ NodNewEntry \/ NodNewReturn

SpecNod == NodInit /\ [][NodNext]_vars

(***************************************************************************)
(* NodDecoder::new: claims                                                 *)
(***************************************************************************)

\* The three bytes of the file at offset `at`.
NodBytes3(at) ==
    <<ByteAt(nod.data, W(at)), ByteAt(nod.data, W(at + 1)), ByteAt(nod.data, W(at + 2))>>

\* C21 as stated: entry n of a decoded palette is the three bytes at
\* 168 + 3n, unscaled, and the version is the byte at offset 6.
C21_Packed ==
    nod.pc = "ok" =>
        /\ nod.version = ByteAt(nod.data, W(6))
        /\ \A i \in 0..255 : nod.palette[i + 1] = NodBytes3(168 + 3 * i)

\* C21 with the stride of the code: entry n of a decoded palette is the
\* three bytes at 168 + 4n, unscaled (the fourth byte of each entry is
\* skipped), and the version is the byte at offset 6.
C21_Strided ==
    nod.pc = "ok" =>
        /\ nod.version = ByteAt(nod.data, W(6))
        /\ \A i \in 0..255 : nod.palette[i + 1] = NodBytes3(168 + 4 * i)

\* C21 happens: a palette was decoded whose last entry is not black.
C21_Witness ==
    /\ nod.pc = "ok"
    /\ nod.palette[256] # <<0, 0, 0>>
    /\ nod.palette[256] = NodBytes3(1188)

(***************************************************************************)
(* RgdDecoder::new                                                         *)
(***************************************************************************)

\* qfg5rgd.rs:41-88  the u32 fields of the header, and the index (from 0)
\* of those the decoder uses.
RgdHeaderFields == 22
RgdDataStart == 92
FieldA == 0
FieldB == 1
FieldNumRegions == 2
FieldOffsetRegionData == 3
FieldNumRegions2 == 7
FieldOffsetRegionIds == 8
FieldOffsetDataStart == 10
FieldNumSegments == 11
FieldOffsetSegmentData == 12
FieldNumPoints == 13
FieldOffsetPointData == 14
FieldNumVectors == 15
FieldOffsetVectorData == 16
\* qfg5rgd.rs:93-128  the bytes of a point, a vector, a segment, a region id
\* and a region.
PointSize == 16
VectorSize == 24
SegmentSize == 16
RegionIdSize == 4
RegionSize == 8

RgdField(bf, k) == ReadU32(bf, W(4 * k))

RgdFail(loc, kind) == [loc EXCEPT !.pc = "err", !.err = kind]

\* qfg5rgd.rs:42,44,66  the three guards of the header.
GuardA(a) == a # W(0)
GuardB(b) == b # W(2)
GuardDataStart_None(ds) == FALSE
GuardDataStart(ds) == ds # W(RgdDataStart)

\* qfg5rgd.rs:40-88  the header: each field is read, then checked, in the
\* order of the file.
RgdHeader(bf, loc) ==
    IF ~CanRead(bf, W(0), W(4)) THEN RgdFail(loc, "io")
    ELSE IF GuardA(RgdField(bf, FieldA)) THEN RgdFail(loc, "a")
    ELSE IF ~CanRead(bf, W(4), W(4)) THEN RgdFail(loc, "io")
    ELSE IF GuardB(RgdField(bf, FieldB)) THEN RgdFail(loc, "b")
    ELSE IF ~CanRead(bf, W(8), W(4 * (FieldOffsetDataStart + 1) - 8)) THEN RgdFail(loc, "io")
    ELSE IF GuardDataStart(RgdField(bf, FieldOffsetDataStart)) THEN RgdFail(loc, "data_start")
    ELSE IF ~CanRead(bf, W(0), W(4 * RgdHeaderFields)) THEN RgdFail(loc, "io")
    ELSE [loc EXCEPT !.pc = "points",
                     !.num_regions = RgdField(bf, FieldNumRegions),
                     !.offset_region_data = RgdField(bf, FieldOffsetRegionData),
                     !.num_regions2 = RgdField(bf, FieldNumRegions2),
                     !.offset_full_list_regionids = RgdField(bf, FieldOffsetRegionIds),
                     !.num_segments = RgdField(bf, FieldNumSegments),
                     !.offset_segment_data = RgdField(bf, FieldOffsetSegmentData),
                     !.num_points = RgdField(bf, FieldNumPoints),
                     !.offset_point_data = RgdField(bf, FieldOffsetPointData),
                     !.num_vectors = RgdField(bf, FieldNumVectors),
                     !.offset_vector_data = RgdField(bf, FieldOffsetVectorData)]

\* A seek to `offset` followed by a loop reading `count` records of `size`
\* bytes: the records, or <<>> with ok FALSE when the buffer ends before
\* the last of them.
RgdTable(bf, offset, count, size) ==
    IF CanRead(bf, offset, WMul(size, count))
    THEN [ok |-> TRUE,
          records |-> [k \in 1..WInt(count) |->
                          ReadBytes(bf, Off(offset, size * (k - 1)), size)]]
    ELSE [ok |-> FALSE, records |-> <<>>]

\* The value RgdDecoder::new returns on success, as the record of the
\* fields of the struct: `Self{}`, a struct without fields.
RgdSelf == <<>>

RgdLocals(bf) ==
    [pc |-> "start", err |-> "", data |-> bf,
     num_regions |-> W(0), offset_region_data |-> W(0),
     num_regions2 |-> W(0), offset_full_list_regionids |-> W(0),
     num_segments |-> W(0), offset_segment_data |-> W(0),
     num_points |-> W(0), offset_point_data |-> W(0),
     num_vectors |-> W(0), offset_vector_data |-> W(0),
     points |-> <<>>, vectors |-> <<>>, segments |-> <<>>,
     region_ids |-> <<>>, regions |-> <<>>, result |-> <<>>]

MaxRgdItems == 2

\* The bytes of a table of k records of `size` bytes, all different.
TableBytes(k, size, first) == [j \in 1..(k * size) |-> (first + j) % 256]

\* A region file: the three guarded fields, the counts d of points,
\* vectors, segments and regions that the header declares, the tables of
\* c[1] points, c[2] vectors, c[3] segments and c[4] regions one after the
\* other from the data start, all but the last `cut` bytes kept.
MkRgd(a, b, ds, d, c, cut) ==
    LET points_at == RgdDataStart
        vectors_at == points_at + PointSize * c[1]
        segments_at == vectors_at + VectorSize * c[2]
        ids_at == segments_at + SegmentSize * c[3]
        regions_at == ids_at + RegionIdSize * c[4]
        field == [k \in 0..(RgdHeaderFields - 1) |->
                    CASE k = FieldA -> a
                      [] k = FieldB -> b
                      [] k = FieldNumRegions -> d[4]
                      [] k = FieldOffsetRegionData -> regions_at
                      [] k = FieldNumRegions2 -> d[4]
                      [] k = FieldOffsetRegionIds -> ids_at
                      [] k = FieldOffsetDataStart -> ds
                      [] k = FieldNumSegments -> d[3]
                      [] k = FieldOffsetSegmentData -> segments_at
                      [] k = FieldNumPoints -> d[1]
                      [] k = FieldOffsetPointData -> points_at
                      [] k = FieldNumVectors -> d[2]
                      [] k = FieldOffsetVectorData -> vectors_at
                      [] OTHER -> 0]
        whole == Concat([k \in 1..RgdHeaderFields |-> LE32(W(field[k - 1]))])
                 \o Zeros(RgdDataStart - 4 * RgdHeaderFields)
                 \o TableBytes(c[1], PointSize, 10) \o TableBytes(c[2], VectorSize, 60)
                 \o TableBytes(c[3], SegmentSize, 110) \o TableBytes(c[4], RegionIdSize, 160)
                 \o TableBytes(c[4], RegionSize, 200)
    IN  MkBuf(SubSeq(whole, 1, Len(whole) - cut))

OneOfEach == <<1, 1, 1, 1>>

RgdFiles ==
    {MkRgd(0, 2, RgdDataStart, c, c, 0) :
        c \in (0..MaxRgdItems) \X (0..MaxRgdItems) \X (0..MaxRgdItems) \X (0..MaxRgdItems)}
    \cup {MkRgd(a, b, ds, OneOfEach, OneOfEach, 0) :
            a \in {0, 1}, b \in {2, 0, 3}, ds \in {RgdDataStart, 0, 93}}
    \cup {MkRgd(a, b, ds, OneOfEach, OneOfEach, cut) :
            a \in {0, 1}, b \in {2, 0}, ds \in {RgdDataStart, 0},
            cut \in {1, 5, 13, 30, 50, 70, 111, 113, 117, 119, 160}}
    \cup {MkRgd(0, 2, RgdDataStart, d, OneOfEach, 0) :
            d \in {<<65535, 1, 1, 1>>, <<1, 65535, 1, 1>>, <<1, 1, 65535, 1>>,
                   <<1, 1, 1, 65535>>}}

RgdInit ==
    /\ overflow_checks \in BOOLEAN
    /\ FirstIdle /\ NodIdle /\ ImgIdle /\ QgfIdle /\ ViewerIdle
    /\ \E bf \in RgdFiles : rgd = RgdLocals(bf)

\* qfg5rgd.rs:40-88
RgdNewHeader ==
    /\ rgd.pc = "start"
    /\ rgd' = RgdHeader(rgd.data, rgd)
    /\ UNCHANGED rgdRest

\* qfg5rgd.rs:90-96
RgdNewPoints ==
    /\ rgd.pc = "points"
    /\ LET t == RgdTable(rgd.data, rgd.offset_point_data, rgd.num_points, PointSize)
       IN  rgd' = IF t.ok THEN [rgd EXCEPT !.pc = "vectors", !.points = t.records]
                  ELSE RgdFail(rgd, "io")
    /\ UNCHANGED rgdRest

\* qfg5rgd.rs:98-105
RgdNewVectors ==
    /\ rgd.pc = "vectors"
    /\ LET t == RgdTable(rgd.data, rgd.offset_vector_data, rgd.num_vectors, VectorSize)
       IN  rgd' = IF t.ok THEN [rgd EXCEPT !.pc = "segments", !.vectors = t.records]
                  ELSE RgdFail(rgd, "io")
    /\ UNCHANGED rgdRest

\* qfg5rgd.rs:107-114
RgdNewSegments ==
    /\ rgd.pc = "segments"
    /\ LET t == RgdTable(rgd.data, rgd.offset_segment_data, rgd.num_segments, SegmentSize)
       IN  rgd' = IF t.ok THEN [rgd EXCEPT !.pc = "region_ids", !.segments = t.records]
                  ELSE RgdFail(rgd, "io")
    /\ UNCHANGED rgdRest

\* qfg5rgd.rs:116-121
RgdNewRegionIds ==
    /\ rgd.pc = "region_ids"
    /\ LET t == RgdTable(rgd.data, rgd.offset_full_list_regionids, rgd.num_regions2,
                         RegionIdSize)
       IN  rgd' = IF t.ok THEN [rgd EXCEPT !.pc = "regions", !.region_ids = t.records]
                  ELSE RgdFail(rgd, "io")
    /\ UNCHANGED rgdRest

\* qfg5rgd.rs:123-131  the regions, and the value returned: the vectors
\* filled so far are locals, dropped at the return.
RgdNewRegions ==
    /\ rgd.pc = "regions"
    /\ LET t == RgdTable(rgd.data, rgd.offset_region_data, rgd.num_regions, RegionSize)
       IN  rgd' = IF t.ok
                  THEN [rgd EXCEPT !.pc = "ok", !.regions = t.records, !.result = RgdSelf]
                  ELSE RgdFail(rgd, "io")
    /\ UNCHANGED rgdRest

RgdNext ==
    \/ RgdNewHeader
    \/ RgdNewPoints
    \/ RgdNewVectors
    \/ RgdNewSegments
    \/ RgdNewRegionIds
    \/ RgdNewRegions

SpecRgd == RgdInit /\ [][RgdNext]_vars

(***************************************************************************)
(* RgdDecoder::new: claims                                                 *)
(***************************************************************************)

RgdFinished == rgd.pc \in {"ok", "err"}

\* Field k of the header of the file, when the file holds it.
RgdHas(k) == CanRead(rgd.data, W(0), W(4 * (k + 1)))

RgdFileField(k) == ReadU32(rgd.data, W(4 * k))

\* Nothing of the tables was read.
RgdNoTable ==
    /\ rgd.points = <<>> /\ rgd.vectors = <<>> /\ rgd.segments = <<>>
    /\ rgd.region_ids = <<>> /\ rgd.regions = <<>>

\* C22, only if: a decode that got past the header, or succeeded, had 0,
\* 2 and 0x5c in the three fields.
C22_OnlyIf ==
    rgd.pc \in {"points", "vectors", "segments", "region_ids", "regions", "ok"} =>
        /\ RgdFileField(0) = W(0)
        /\ RgdFileField(1) = W(2)
        /\ RgdFileField(10) = W(92)

\* C22, the order: the first of the three fields that is wrong is the one
\* reported, and no table was read before the report.
C22_Order ==
    (RgdFinished /\ RgdHas(0)) =>
        /\ RgdFileField(0) # W(0) => rgd.pc = "err" /\ rgd.err = "a" /\ RgdNoTable
        /\ (RgdFileField(0) = W(0) /\ RgdHas(1) /\ RgdFileField(1) # W(2)) =>
                rgd.pc = "err" /\ rgd.err = "b" /\ RgdNoTable
        /\ (RgdFileField(0) = W(0) /\ RgdHas(10) /\ RgdFileField(1) = W(2)
            /\ RgdFileField(10) # W(92)) =>
                rgd.pc = "err" /\ rgd.err = "data_start" /\ RgdNoTable

\* C22: decode fails with an error unless the first two header fields are 0
\* and 2 and the data start field is 0x5c, checked in that order before any
\* table is read.
C22_HeaderGuards == C22_OnlyIf /\ C22_Order

\* C22 happens: a header with 0 and 2 was refused for its data start.
C22_Witness ==
    /\ rgd.pc = "err" /\ rgd.err = "data_start"
    /\ RgdFileField(0) = W(0) /\ RgdFileField(1) = W(2)

\* The tables parsed by a successful decode are those the header declares.
RgdParsed ==
    rgd.pc = "ok" =>
        /\ W(Len(rgd.points)) = RgdFileField(13)
        /\ W(Len(rgd.vectors)) = RgdFileField(15)
        /\ W(Len(rgd.segments)) = RgdFileField(11)
        /\ W(Len(rgd.regions)) = RgdFileField(2)
        /\ \A k \in 1..Len(rgd.points) :
            rgd.points[k] = ReadBytes(rgd.data, Off(RgdFileField(14), 16 * (k - 1)), 16)
        /\ \A k \in 1..Len(rgd.regions) :
            rgd.regions[k] = ReadBytes(rgd.data, Off(RgdFileField(3), 8 * (k - 1)), 8)

\* C23: the value a successful decode returns holds the points, vectors,
\* segments and regions parsed, as many of each as the header declares.
C23_Exposes ==
    rgd.pc = "ok" =>
        /\ {"points", "vectors", "segments", "regions"} \subseteq DOMAIN rgd.result
        /\ rgd.result.points = rgd.points
        /\ rgd.result.vectors = rgd.vectors
        /\ rgd.result.segments = rgd.segments
        /\ rgd.result.regions = rgd.regions
        /\ RgdParsed

(***************************************************************************)
(* ImageDecoder::new                                                       *)
(***************************************************************************)

\* qfg5img.rs:11
IMG_DATA_OFFSET == 64
\* qfg5img.rs:21-22  the offsets of the width and of the height.
ImgWidthAt == 32
ImgHeightAt == 36

\* `&img_data[from..to]` is in range.
ImgSlice(bytes, from, to) == from <= to /\ to <= Len(bytes)

\* qfg5img.rs:21-23  the width, the height and the zeroed pixel buffer.
ImgHeader(loc) ==
    IF ~ImgSlice(loc.data, ImgWidthAt, ImgWidthAt + 2)
       \/ ~ImgSlice(loc.data, ImgHeightAt, ImgHeightAt + 2)
    THEN [loc EXCEPT !.pc = "panic"]
    ELSE LET width == At(loc.data, ImgWidthAt) + 256 * At(loc.data, ImgWidthAt + 1)
             height == At(loc.data, ImgHeightAt) + 256 * At(loc.data, ImgHeightAt + 1)
         IN  [loc EXCEPT !.pc = "decode", !.width = width, !.height = height,
                         !.pixels = Zeros(width * height)]

\* qfg5img.rs:25-26  the pixels decoded from the bytes after the header.
ImgDecode(loc) ==
    IF ~ImgSlice(loc.data, IMG_DATA_OFFSET, Len(loc.data))
    THEN [loc EXCEPT !.pc = "panic"]
    ELSE LET r == DecodeRleFrom(SubSeq(loc.data, IMG_DATA_OFFSET + 1, Len(loc.data)),
                                loc.pixels, 0, 0)
         IN  IF r.panic THEN [loc EXCEPT !.pc = "panic", !.pixels = r.out]
             ELSE [loc EXCEPT !.pc = "ok", !.pixels = r.out]

\* The images decoded: sizes up to MaxSide by MaxSide, every RLE stream of
\* up to MaxStream bytes, and files cut inside the header.
MaxSide == 2
MaxStream == 2

MkImg(w, h, stream) ==
    Zeros(ImgWidthAt) \o LE16(w) \o Zeros(2) \o LE16(h)
    \o Zeros(IMG_DATA_OFFSET - ImgHeightAt - 2) \o stream

ImgFiles ==
    {MkImg(w, h, st) : w \in 0..MaxSide, h \in 0..MaxSide, st \in SeqsUpTo(RleBytes, MaxStream)}
    \cup {SubSeq(MkImg(1, 1, <<1, 7>>), 1, k) : k \in {0, 33, 34, 37, 38, 63}}

ImgInit ==
    /\ overflow_checks \in BOOLEAN
    /\ FirstIdle /\ NodIdle /\ RgdIdle /\ QgfIdle /\ ViewerIdle
    /\ \E bytes \in ImgFiles :
        img = [pc |-> "start", data |-> bytes, width |-> 0, height |-> 0, pixels |-> <<>>]

\* qfg5img.rs:21-23
ImgNewHeader ==
    /\ img.pc = "start"
    /\ img' = ImgHeader(img)
    /\ UNCHANGED imgRest

\* qfg5img.rs:25-26
ImgNewDecode ==
    /\ img.pc = "decode"
    /\ img' = ImgDecode(img)
    /\ UNCHANGED imgRest

ImgNext == ImgNewHeader \/ ImgNewDecode

SpecImg == ImgInit /\ [][ImgNext]_vars

(***************************************************************************)
(* ImageDecoder::new: claims                                               *)
(***************************************************************************)

\* C24, no abort: the decode never panics.
C24_NoAbort == img.pc # "panic"

\* C24, short input: a decode of a buffer shorter than the header offset
\* ends in a failure returned to the caller.
C24_ShortFails ==
    (img.pc \in {"ok", "err", "panic"} /\ Len(img.data) < IMG_DATA_OFFSET) => img.pc = "err"

\* C24: every decoder returns a failure value for a buffer with fewer bytes
\* than it reads; it never aborts (here for the raster image decoder).
C24_UniformFailure == C24_NoAbort /\ C24_ShortFails

(***************************************************************************)
(* QgfDecoder::new                                                         *)
(***************************************************************************)

\* qfg5qgf.rs:12
QGF_NUM_CHARS == 512
\* qfg5qgf.rs:29-34  six u32 fields, char_height the second.
QgfHeaderSize == 24
QgfCharHeightAt == 4
\* qfg5qgf.rs:55  the bit that tells a skip from a literal.
QgfSkipBit == 128

QgfFail(loc, kind) == [loc EXCEPT !.pc = "err", !.err = kind]

\* The start of the width table, of the offset table and of the glyph data.
QgfWidthsAt == QgfHeaderSize
QgfOffsetsAt == QgfWidthsAt + QGF_NUM_CHARS
QgfDataAt == QgfOffsetsAt + 4 * QGF_NUM_CHARS

\* qfg5qgf.rs:29-43  the header, the width table and the offset table; a
\* read past the end of the buffer is the failure returned.
QgfTables(loc) ==
    IF ~CanRead(loc.data, W(0), W(QgfDataAt)) THEN QgfFail(loc, "io")
    ELSE [loc EXCEPT
            !.pc = "glyph",
            !.char_height = ReadU32(loc.data, W(QgfCharHeightAt)),
            !.char_widths = [i \in 1..QGF_NUM_CHARS |->
                                ByteAt(loc.data, W(QgfWidthsAt + i - 1))],
            !.char_offsets = [i \in 1..QGF_NUM_CHARS |->
                                ReadU32(loc.data, W(QgfOffsetsAt + 4 * (i - 1)))]]

\* qfg5qgf.rs:50 with the product replaced by the width alone.
QgfSize_WidthOnly(width, char_height, checks) ==
    [v |-> W(width), panic |-> FALSE, fits |-> TRUE]

\* qfg5qgf.rs:50  `width * char_height`, a product of two u32.
QgfSize(width, char_height, checks) == U32Mul(W(width), char_height, checks)

\* qfg5qgf.rs:47-51  the seek to the glyph's data and its zeroed pixels.
QgfGlyph(loc) ==
    LET width == At(loc.char_widths, loc.n)
        size == QgfSize(width, loc.char_height, overflow_checks)
    IN  IF size.panic THEN [loc EXCEPT !.pc = "panic"]
        ELSE [loc EXCEPT !.pc = "pairs",
                         !.cursor = At(loc.char_offsets, loc.n),
                         !.width = width,
                         !.glyph = Zeros(WInt(size.v)),
                         !.offset = 0]

\* qfg5qgf.rs:59 with a skip of a & 0x7f, which is 0 for a = 128.
QgfSkip_Low(a) == a % QgfSkipBit

\* qfg5qgf.rs:59  the skip of a pair whose first byte has the high bit set.
QgfSkip(a) == 128 - (a % QgfSkipBit)

\* qfg5qgf.rs:53-60  one pair: two bytes read, then a literal or a skip.
QgfPair(loc) ==
    IF ~CanRead(loc.data, loc.cursor, W(1)) THEN QgfFail(loc, "io")
    ELSE IF ~CanRead(loc.data, loc.cursor, W(2))
    THEN QgfFail([loc EXCEPT !.cursor = Off(loc.cursor, 1)], "io")
    ELSE LET a == ByteAt(loc.data, loc.cursor)
             after == [loc EXCEPT !.cursor = Off(loc.cursor, 2),
                                  !.pairs = loc.pairs + 1]
         IN  IF a < QgfSkipBit
             THEN [after EXCEPT !.glyph[loc.offset + 1] = a,
                                !.offset = loc.offset + 1]
             ELSE [after EXCEPT !.offset = loc.offset + QgfSkip(a)]

\* qfg5qgf.rs:62  the glyph pushed, and the next slot.
QgfPush(loc) ==
    [loc EXCEPT !.pc = "glyph",
                !.chars = Append(loc.chars, [width |-> loc.width, data |-> loc.glyph]),
                !.n = loc.n + 1]

\* The fonts decoded.  Every slot but the first and the last has width 0; the
\* first and the last have one width, the last glyph's data (literal pairs)
\* comes first in the file and the first glyph's data ends the file, so that
\* a stream too short for its glyph ends the input.  MaxPairs bounds the
\* first glyph's stream; Heights holds glyph heights of 0, of a few rows and
\* of more than 2^31 rows, each paired with widths whose pixel buffer stays
\* small.
MaxPairs == 2
PairBytes == {7, 128, 255}
LastGlyphLiterals == <<9, 9, 9>>
HugeHeight == <<32768, 1>>
QgfShapes ==
    {<<W(1), 0>>, <<W(1), 1>>, <<W(1), 3>>, <<W(2), 1>>, <<W(0), 2>>, <<HugeHeight, 2>>}

QgfLastAt == QgfDataAt
QgfFirstAt == QgfDataAt + 2 * Len(LastGlyphLiterals)

QgfStream(as) == [j \in 1..(2 * Len(as)) |-> IF j % 2 = 1 THEN as[(j + 1) \div 2] ELSE 200]

MkQgf(shape, as, cut) ==
    LET stream == QgfStream(as)
        len == QgfFirstAt + Len(stream) - cut
    IN  [len |-> W(len),
         segs |-> <<[at |-> W(QgfCharHeightAt), bytes |-> LE32(shape[1])],
                    [at |-> W(QgfWidthsAt), bytes |-> <<shape[2]>>],
                    [at |-> W(QgfWidthsAt + QGF_NUM_CHARS - 1), bytes |-> <<shape[2]>>],
                    [at |-> W(QgfOffsetsAt), bytes |-> LE32(W(QgfFirstAt))],
                    [at |-> W(QgfOffsetsAt + 4 * (QGF_NUM_CHARS - 1)),
                     bytes |-> LE32(W(QgfLastAt))],
                    [at |-> W(QgfLastAt), bytes |-> QgfStream(LastGlyphLiterals)],
                    [at |-> W(QgfFirstAt),
                     bytes |-> SubSeq(stream, 1, Len(stream) - cut)]>>]

QgfFiles ==
    {MkQgf(sh, as, 0) : sh \in QgfShapes, as \in SeqsUpTo(PairBytes, MaxPairs)}
    \cup {MkQgf(sh, <<7, 7>>, 1) : sh \in QgfShapes}
    \cup {[len |-> W(k), segs |-> <<>>] : k \in {0, QgfHeaderSize, QgfDataAt - 1}}

QgfLocals(bf) ==
    [pc |-> "start", data |-> bf, err |-> "", cursor |-> W(0),
     char_height |-> W(0), char_widths |-> <<>>, char_offsets |-> <<>>,
     n |-> 0, width |-> 0, glyph |-> <<>>, offset |-> 0, pairs |-> 0,
     chars |-> <<>>]

QgfInit ==
    /\ overflow_checks \in BOOLEAN
    /\ FirstIdle /\ NodIdle /\ ImgIdle /\ RgdIdle /\ ViewerIdle
    /\ \E bf \in QgfFiles : qgf = QgfLocals(bf)

\* qfg5qgf.rs:28-43
QgfNewTables ==
    /\ qgf.pc = "start"
    /\ qgf' = QgfTables(qgf)
    /\ UNCHANGED qgfRest

\* qfg5qgf.rs:46-51  the loop over the slots is entered for n < 512.
QgfNewGlyph ==
    /\ qgf.pc = "glyph"
    /\ qgf.n < QGF_NUM_CHARS
    /\ qgf' = QgfGlyph(qgf)
    /\ UNCHANGED qgfRest

\* qfg5qgf.rs:52-61  one iteration of `while offset < data.len()`.
QgfNewPair ==
    /\ qgf.pc = "pairs"
    /\ qgf.offset < Len(qgf.glyph)
    /\ qgf' = QgfPair(qgf)
    /\ UNCHANGED qgfRest

\* qfg5qgf.rs:52, 62  the while loop left.
QgfNewPush ==
    /\ qgf.pc = "pairs"
    /\ ~(qgf.offset < Len(qgf.glyph))
    /\ qgf' = QgfPush(qgf)
    /\ UNCHANGED qgfRest

\* qfg5qgf.rs:64
QgfNewReturn ==
    /\ qgf.pc = "glyph"
    /\ qgf.n = QGF_NUM_CHARS
    /\ qgf' = [qgf EXCEPT !.pc = "ok"]
    /\ UNCHANGED qgfRest

QgfNext == QgfNewTables \/ QgfNewGlyph \/ QgfNewPair \/ QgfNewPush \/ QgfNewReturn

SpecQgf == QgfInit /\ [][QgfNext]_vars

(***************************************************************************)
(* QgfDecoder::new: claims                                                 *)
(***************************************************************************)

\* width * glyph_height over the integers, for the glyph being decoded.
GlyphPixels == Product(W(qgf.width), qgf.char_height)

\* A glyph's decode starts at its offset with every pixel 0.
C25_Start ==
    (qgf.pc = "glyph" /\ qgf'.pc = "pairs") =>
        /\ qgf'.cursor = ReadU32(qgf.data, W(QgfOffsetsAt + 4 * qgf.n))
        /\ qgf'.offset = 0
        /\ \A i \in 1..Len(qgf'.glyph) : qgf'.glyph[i] = 0

\* A pair (a, b) with a < 128 stores a and advances by 1; one with a >= 128
\* stores nothing and advances by 128 - (a & 0x7f); b changes nothing.
C25_Pair ==
    (qgf.pc = "pairs" /\ qgf'.pc = "pairs") =>
        LET a == ByteAt(qgf.data, qgf.cursor)
        IN  /\ qgf'.cursor = Off(qgf.cursor, 2)
            /\ IF a < 128
               THEN /\ qgf'.glyph = [qgf.glyph EXCEPT ![qgf.offset + 1] = a]
                    /\ qgf'.offset = qgf.offset + 1
               ELSE /\ qgf'.glyph = qgf.glyph
                    /\ qgf'.offset = qgf.offset + (256 - a)

\* Pairs are consumed until the position reaches width * glyph_height.
C25_Until ==
    /\ (qgf.pc = "pairs" /\ qgf'.pc = "pairs") => WLt(W(qgf.offset), GlyphPixels)
    /\ (qgf.pc = "pairs" /\ qgf'.pc = "glyph") => WLe(GlyphPixels, W(qgf.offset))

\* The same, for glyphs whose width * glyph_height is a u32.
C25_UntilInRange ==
    [][InU32(GlyphPixels) => C25_Until]_vars

\* C25: glyph data is read as pairs (a, b) from the glyph's offset; a < 128
\* is a literal pixel, a >= 128 a skip of 128 - (a & 0x7f) pixels, b is
\* unused; pairs are consumed until the position reaches
\* width * glyph_height, and the pixels no literal wrote are 0.
C25_GlyphPixels == [][C25_Start /\ C25_Pair /\ C25_Until]_vars

\* The glyph of slot i (from 0) of a decoded font.
GlyphAt(i) == qgf.chars[i + 1]

\* C26: a decoded font has 512 glyphs in slot order, glyph n with the width
\* of the n-th byte of the width table and exactly width * glyph_height
\* pixels, for every 32-bit glyph height.
C26_Glyphs ==
    qgf.pc = "ok" =>
        /\ Len(qgf.chars) = 512
        /\ \A i \in 0..511 :
            /\ GlyphAt(i).width = ByteAt(qgf.data, W(QgfWidthsAt + i))
            /\ W(Len(GlyphAt(i).data))
                 = Product(W(GlyphAt(i).width), ReadU32(qgf.data, W(QgfCharHeightAt)))

\* The same, for fonts whose glyph height times 255 is a u32.
C26_GlyphsInRange ==
    (qgf.pc = "ok" /\ InU32(Product(W(255), qgf.char_height))) => C26_Glyphs

(***************************************************************************)
(* QgmDecoder::new: the framing of the messages                            *)
(***************************************************************************)

\* The k-th u16 (from 0) of the 32-byte record that starts at `at`.
RecordField(at, k) == ReadU16(qgm_data, Off(at, 2 * k))

\* The bytes of the message whose record starts at `at`, from its fields.
BlockSize(at) ==
    32 + 13 * (IF RecordField(at, 14) # 0 THEN 1 ELSE 0)
       + 13 * RecordField(at, 8) + RecordField(at, 12) + 4

\* The start of the record of the k-th message (from 1).
RECURSIVE RecordStart(_)
RecordStart(k) ==
    IF k = 1 THEN W(16)
    ELSE Off(RecordStart(k - 1), BlockSize(RecordStart(k - 1)))

\* The text bytes of the message whose record starts at `at`.
TextBytes(at) ==
    ReadBytes(qgm_data, Off(at, BlockSize(at) - 4 - RecordField(at, 12)),
              RecordField(at, 12))

\* The message count of the header.
HeaderCount == ReadU32(qgm_data, W(8))

\* C27, the count: a decoded list has as many messages as the header says.
C27_Count == qgm.pc = "ok" => W(Len(messages)) = HeaderCount

\* C27, the records: each record starts where the previous message's fields
\* put it, and so does whatever is read next.
C27_Starts ==
    /\ qgm.pc \in {"message", "ok"} => qgm.cursor = RecordStart(Len(messages) + 1)
    /\ qgm.pc = "label" => qgm.cursor = Off(RecordStart(Len(messages) + 1), 32)

\* C27, the labels: a label is present iff the label-presence field is
\* nonzero, and there are as many option labels as the option-count field.
C27_LabelCounts ==
    /\ qgm.pc \in {"message", "options", "ok"} =>
        \A m \in 1..Len(messages) :
            /\ (messages[m].message_label # <<>>) <=> (RecordField(RecordStart(m), 14) # 0)
            /\ Len(messages[m].dialog_options) = RecordField(RecordStart(m), 8)
    /\ qgm.pc = "options" =>
        /\ (qgm.message_label # <<>>)
              <=> (RecordField(RecordStart(Len(messages) + 1), 14) # 0)
        /\ Len(qgm.dialog_options) <= RecordField(RecordStart(Len(messages) + 1), 8)

\* C27, the text: no message whose flags have bit value 4 clear and whose
\* text is not valid UTF-8 is ever decoded.
C27_Utf8 ==
    qgm.pc \in {"message", "options", "label", "ok"} =>
        \A m \in 1..Len(messages) :
            (RecordField(RecordStart(m), 9) \div 4) % 2 = 0
                => IsUtf8(TextBytes(RecordStart(m)), 1)

\* C27: the message list has as many messages as the header's count; a
\* label is present iff the label-presence field is nonzero, the option
\* labels are as many as the option-count field, the next record starts
\* 32 + 13*(label) + 13*options + text_length + 4 bytes after this one's,
\* and invalid UTF-8 in non-mangled text fails the decode.
C27_Framing == C27_Count /\ C27_Starts /\ C27_LabelCounts /\ C27_Utf8

\* C27 happens: MaxMessages messages were decoded, the first with a label and
\* an option, the last with MaxOptions options.
C27_Witness ==
    /\ qgm.pc = "ok"
    /\ Len(messages) = MaxMessages
    /\ messages[1].message_label # <<>>
    /\ Len(messages[1].dialog_options) = 1
    /\ Len(messages[MaxMessages].dialog_options) = MaxOptions

\* C27 happens also as a failure: text that is not UTF-8 ended the decode.
C27_WitnessUtf8 == qgm.pc = "err" /\ qgm.err = "utf8"

(***************************************************************************)
(* Qfg5Model::new: the atlas count                                         *)
(***************************************************************************)

\* The 32-bit atlas count field, at the offset the header gives.
AtlasCountField == ReadU32(mdl_data, mdl.bitmap_texture_offset)

\* C28, the failure: the decode gets past the count field only when it is a
\* multiple of 4, and a count that is not ends it with the count's error.
C28_Rejects ==
    /\ mdl.pc \in {"subbitmaps", "ok"} => AtlasCountField[2] % 4 = 0
    /\ (mdl.pc = "err" /\ mdl.err = "num_subbitmaps") => AtlasCountField[2] % 4 # 0

\* C28, the count: count/4 SubBitmaps are decoded, one after the other.
C28_Count ==
    /\ mdl.pc = "subbitmaps" =>
        /\ Len(subbitmaps) = mdl.n
        /\ WLe(WMul(4, W(Len(subbitmaps))), AtlasCountField)
    /\ mdl.pc = "ok" => WMul(4, W(Len(subbitmaps))) = AtlasCountField

\* C28, the skip: the first atlas record is read (count/4 - 1) * 4 bytes
\* after the count field when count/4 > 1, which is count - 4 bytes, and
\* right after it otherwise.
C28_Skip ==
    (mdl.pc = "subbitmaps" /\ mdl.n = 0) =>
        cursor = WAdd(Off(mdl.bitmap_texture_offset, 4),
                      IF WLt(W(4), AtlasCountField)
                      THEN WSub(AtlasCountField, W(4)) ELSE W(0))

\* C28: the decode fails when the atlas count field is not a multiple of 4;
\* otherwise count/4 SubBitmaps are decoded in order, and for count/4 > 1
\* (count/4 - 1) * 4 bytes are skipped before the first atlas record.
C28_AtlasCount == C28_Rejects /\ C28_Count /\ C28_Skip

\* C28 happens: a model with MaxSubBitmaps atlas records was decoded.
C28_Witness ==
    /\ mdl.pc = "ok"
    /\ Len(subbitmaps) = MaxSubBitmaps
    /\ AtlasCountField = W(4 * MaxSubBitmaps)

\* C28 happens also as a failure: a count that is no multiple of 4.
C28_WitnessReject == mdl.pc = "err" /\ mdl.err = "num_subbitmaps"

(***************************************************************************)
(* The decode loops: decode_rle and the glyph loop of QgfDecoder::new      *)
(*                                                                         *)
(* One specification runs either loop from its call to its end.  A loop    *)
(* that can take an iteration takes it: the program is sequential, so the  *)
(* fair specification asks weak fairness of the next step.                 *)
(***************************************************************************)

\* The inputs of decode_rle: up to MaxLoopData bytes into up to MaxLoopOut.
MaxLoopData == 2
MaxLoopOut == 2
\* The fonts: a glyph of one pixel given no pair, a literal or a skip, and a
\* glyph of width 2 and height 0x80000001 given a skip and a literal or a
\* stream that ends inside its second pair.
LoopFonts ==
    {MkQgf(<<W(1), 1>>, as, 0) : as \in {<<>>, <<7>>, <<128>>}}
    \cup {MkQgf(<<HugeHeight, 2>>, <<255, 7>>, cut) : cut \in {0, 1}}

\* decode.rs:7-9  the call of decode_rle.
LoopsRleInit ==
    /\ \E in \in SeqsUpTo(RleBytes, MaxLoopData), len \in 0..MaxLoopOut, fill \in FillBytes :
         /\ data = in
         /\ output_init = [i \in 1..len |-> fill]
    /\ output = output_init
    /\ n = 0
    /\ output_index = 0
    /\ rle_pc = "loop"
    /\ SpkIdle /\ MdlIdle /\ LaterIdle

\* qfg5qgf.rs:27-28  the call of QgfDecoder::new.
LoopsQgfInit ==
    /\ FirstIdle /\ NodIdle /\ ImgIdle /\ RgdIdle /\ ViewerIdle
    /\ \E bf \in LoopFonts : qgf = QgfLocals(bf)

LoopsInit ==
    /\ overflow_checks \in BOOLEAN
    /\ (LoopsRleInit \/ LoopsQgfInit)

LoopsNext == RleNext \/ QgfNext

SpecLoops == LoopsInit /\ [][LoopsNext]_vars /\ WF_vars(LoopsNext)

(***************************************************************************)
(* The decode loops: claims                                                *)
(***************************************************************************)

\* C29, decode_rle: an iteration after which the loop goes on has advanced
\* the input index by at least 1; control byte 0 consumes exactly one byte
\* and writes nothing.
C29_RleAdvance ==
    (rle_pc = "loop" /\ rle_pc' = "loop") =>
        /\ n' >= n + 1
        /\ data[n + 1] = 0 =>
            /\ n' = n + 1
            /\ output' = output
            /\ output_index' = output_index

\* C29, the glyph loop: a pair advances the pixel position by at least 1,
\* or the decode ends with an error at the end of the input.
C29_PairAdvance ==
    qgf.pc = "pairs" =>
        \/ qgf'.pc = "pairs" /\ qgf'.offset >= qgf.offset + 1
        \/ qgf'.pc = "glyph" /\ qgf.offset >= Len(qgf.glyph)
        \/ qgf'.pc = "err" /\ ~CanRead(qgf.data, qgf.cursor, W(2))

\* Either loop has reached its end.
LoopsDone ==
    \/ rle_pc \in {"returned", "panicked"}
    \/ qgf.pc \in {"ok", "err", "panic"}

\* C29: each iteration of decode_rle's loop advances the input index by at
\* least 1 and each pair of the glyph loop advances the pixel position by at
\* least 1 or ends the decode with an error; both loops end after finitely
\* many steps.
C29_Terminates == [][C29_RleAdvance /\ C29_PairAdvance]_vars /\ <>LoopsDone

\* C29 happens: decode_rle returned after a control byte 0 ...
C29_Witness ==
    /\ rle_pc = "returned"
    /\ Len(data) = MaxLoopData
    /\ data[1] = 0

\* ... and a font was decoded whose glyphs took pairs.
C29_WitnessFont == qgf.pc = "ok" /\ qgf.pairs > 1

(***************************************************************************)
(* mdl_anm_viewer: State::new, State::process_input, State::update_render  *)
(*                                                                         *)
(* The model is kept as its number of submeshes (load_qfg5model makes one  *)
(* mesh of each, threed/resources.rs:65-116) and the animation as the      *)
(* number of blocks of each of its tracks.  An index is a usize: the one   *)
(* value beyond the small ones that the code produces is usize::MAX, from  *)
(* `0 - 1` without overflow checks, kept as UsizeMax.                      *)
(***************************************************************************)

\* mdl_anm_viewer.rs:478  `len() - 1` for len() = 0, without overflow checks.
UsizeMax == -1

\* `v[index]` is in range for a vector of len elements.
Indexable(index, len) == index # UsizeMax /\ index < len

\* mdl_anm_viewer.rs:526-555  update_render: what it indexes with the
\* selection; an index out of range panics.
update_render(st) ==
    IF st.mode = "mesh"
    THEN IF Indexable(st.index, st.submeshes) THEN st
         ELSE [st EXCEPT !.pc = "panic"]
    ELSE IF \A mesh_index \in 1..st.submeshes :
                /\ Indexable(mesh_index - 1, Len(st.blocks))
                /\ Indexable(st.index, st.blocks[mesh_index])
         THEN st
         ELSE [st EXCEPT !.pc = "panic"]

\* mdl_anm_viewer.rs:451, 458  `index += 1`.
IndexIncrement(index, checks) ==
    IF index = UsizeMax THEN [v |-> 0, panic |-> checks]
    ELSE [v |-> index + 1, panic |-> FALSE]

\* mdl_anm_viewer.rs:475-479, 483-487  one step back, or the last of len.
IndexDecrement(index, len, checks) ==
    IF index # 0 THEN [v |-> IF index = UsizeMax THEN UsizeMax - 1 ELSE index - 1,
                       panic |-> FALSE]
    ELSE IF len = 0 THEN [v |-> UsizeMax, panic |-> checks]
    ELSE [v |-> len - 1, panic |-> FALSE]

\* The length the selection wraps at: obj_model.meshes.len() in mesh mode
\* and anm.anims.len() in animation mode (mdl_anm_viewer.rs:452, 459).
WrapLen(st) == IF st.mode = "mesh" THEN st.submeshes ELSE Len(st.blocks)

\* mdl_anm_viewer.rs:448-465  the '=' key.
KeyEqual(st, checks) ==
    LET inc == IndexIncrement(st.index, checks)
        index == IF inc.v = WrapLen(st) THEN 0 ELSE inc.v
    IN  IF inc.panic THEN [st EXCEPT !.pc = "panic"]
        ELSE update_render([st EXCEPT !.index = index])

\* mdl_anm_viewer.rs:471-491  the '-' key.
KeyMinus(st, checks) ==
    LET dec == IndexDecrement(st.index, WrapLen(st), checks)
    IN  IF dec.panic THEN [st EXCEPT !.pc = "panic"]
        ELSE update_render([st EXCEPT !.index = dec.v])

\* mdl_anm_viewer.rs:497-503  the space key.
KeySpace(st) ==
    update_render([st EXCEPT !.mode = IF st.mode = "mesh" THEN "anm" ELSE "mesh",
                             !.index = 0])

\* The models and animations viewed: up to MaxViewerMeshes submeshes and as
\* many tracks (the assertion of mdl_anm_viewer.rs:365), each track of up to
\* MaxViewerBlocks blocks.
MaxViewerMeshes == 2
MaxViewerBlocks == 3

ViewerInit ==
    /\ overflow_checks \in BOOLEAN
    /\ FirstIdle /\ NodIdle /\ ImgIdle /\ RgdIdle /\ QgfIdle
    /\ \E ns \in 0..MaxViewerMeshes :
        \E bl \in [1..ns -> 0..MaxViewerBlocks] :
            viewer = [pc |-> "new", mode |-> "mesh", index |-> 0,
                      submeshes |-> ns, blocks |-> bl]

\* mdl_anm_viewer.rs:359-416  State::new: MeshIndex(0), then update_render.
ViewerNew ==
    /\ viewer.pc = "new"
    /\ viewer' = update_render([viewer EXCEPT !.pc = "running"])
    /\ UNCHANGED viewerRest

\* mdl_anm_viewer.rs:446-469
ViewerEqual ==
    /\ viewer.pc = "running"
    /\ viewer' = KeyEqual(viewer, overflow_checks)
    /\ UNCHANGED viewerRest

\* mdl_anm_viewer.rs:470-495
ViewerMinus ==
    /\ viewer.pc = "running"
    /\ viewer' = KeyMinus(viewer, overflow_checks)
    /\ UNCHANGED viewerRest

\* mdl_anm_viewer.rs:496-507
ViewerSpace ==
    /\ viewer.pc = "running"
    /\ viewer' = KeySpace(viewer)
    /\ UNCHANGED viewerRest

ViewerNext == ViewerNew \/ ViewerEqual \/ ViewerMinus \/ ViewerSpace

SpecViewer == ViewerInit /\ [][ViewerNext]_vars

(***************************************************************************)
(* mdl_anm_viewer: claims                                                  *)
(***************************************************************************)

\* The selection is a valid index for what update_render reads with it.
SelectionValid ==
    IF viewer.mode = "mesh"
    THEN viewer.index >= 0 /\ viewer.index < viewer.submeshes
    ELSE \A t \in 1..Len(viewer.blocks) :
            viewer.index >= 0 /\ viewer.index < viewer.blocks[t]

\* C30: from MeshIndex(0), with as many tracks as submeshes, after any '=',
\* '-' and space key presses the selection is in range for everything
\* update_render reads: below the number of submeshes in mesh mode, below
\* the number of blocks of every track in animation mode, for every number
\* of submeshes, tracks and blocks, 0 included.
C30_SelectionInRange ==
    /\ viewer.pc # "panic"
    /\ viewer.pc = "running" => SelectionValid

\* The same in mesh mode, for models with a submesh.
C30_MeshMode ==
    (viewer.pc # "idle" /\ viewer.submeshes > 0 /\ viewer.mode = "mesh")
        => viewer.pc # "panic" /\ SelectionValid

=============================================================================
